---- MODULE Spec2Model ----
(***************************************************************************)
(* Write path of the graph database, worker/mutation.go: the schema        *)
(* mutation coordinator (runSchemaMutation and the background index        *)
(* rebuilds it launches), the schema validator (checkSchema) and the       *)
(* rollback reload (undoSchemaUpdate).                                     *)
(*                                                                         *)
(* An operation that takes time on the storage engine (DropIndexes +       *)
(* BuildData, BuildIndexes) is a pair of steps, its start and its end, so  *)
(* that other goroutines run in between.  stopIndexing is two steps, the   *)
(* read of IndexingInProgress and the compare-and-swap, because several    *)
(* goroutines call it.  updateSchema and undoSchemaUpdate are one step.    *)
(***************************************************************************)
EXTENDS Integers, Sequences, FiniteSets, TLC

(***************************************************************************)
(* Bounds of the model and constants of the program.                       *)
(***************************************************************************)
\* number of runSchemaMutation calls in one behaviour
MaxCalls == 2

\* maxRetries of undoSchemaUpdate
MaxRetries == 10

\* the throttle limit of runSchemaMutation
MaxPredicateAtATime == 1024

\* user predicates the schema updates are about
Preds == {"name", "age"}

(***************************************************************************)
(* pb.SchemaUpdate.  Tokenizer is the set of the tokenizer names; VecSpec  *)
(* says whether IndexSpecs is non-empty.  The zero value, with the empty   *)
(* predicate name, is what schema.State().Get returns with ok = false.     *)
(***************************************************************************)
ZeroSchema ==
    [Predicate |-> "", ValueType |-> "DEFAULT", Directive |-> "NONE",
     Tokenizer |-> {}, VecSpec |-> FALSE, List |-> FALSE, Count |-> FALSE,
     Lang |-> FALSE, Upsert |-> FALSE, Unique |-> FALSE]

\* types.TypeID.IsScalar: every type but uid is a scalar
IsScalar(t) == t # "UID"

\* schema.HasTokenizerOrVectorIndexSpec
HasTokenizerOrVectorIndexSpec(s) == s.Tokenizer # {} \/ s.VecSpec

\* x.IsInternalPredicate: the names the engine keeps for itself
IsInternalPredicate(p) == p \in {"uid"}

\* validTokenizer of validateSchemaForUnique
validTokenizer(tokenizers) == tokenizers \cap {"hash", "exact", "int"} # {}

NoErr == "nil"

(***************************************************************************)
(* validateSchemaForUnique(prevSchema, currentSchema): the error, and the  *)
(* update as the function leaves it (it sets Upsert on currentSchema).     *)
(***************************************************************************)
validateSchemaForUnique(prevSchema, currentSchema) ==
    IF prevSchema.Predicate # "" /\ prevSchema.Upsert /\ ~currentSchema.Upsert
    THEN [err |-> "ErrDropUpsert", s |-> currentSchema]
    ELSE IF prevSchema.Predicate # "" /\ prevSchema.Unique
            /\ ~validTokenizer(currentSchema.Tokenizer)
    THEN [err |-> "ErrDropIndex", s |-> currentSchema]
    ELSE LET cur == [currentSchema EXCEPT !.Upsert = TRUE] IN
         CASE cur.ValueType = "STRING" ->
                IF cur.Tokenizer = {} \/ ~validTokenizer(cur.Tokenizer)
                THEN [err |-> "ErrIndexMissing", s |-> cur]
                ELSE [err |-> NoErr, s |-> cur]
           [] cur.ValueType = "INT" ->
                IF cur.Tokenizer = {}
                THEN [err |-> "ErrIndexMissing", s |-> cur]
                ELSE [err |-> NoErr, s |-> cur]
           [] OTHER -> [err |-> "ErrUniqueType", s |-> cur]

checkSchemaIndexUnchecked(s, prev, edges) ==
    LET uq == IF s.Unique THEN validateSchemaForUnique(prev, s)
                          ELSE [err |-> NoErr, s |-> s]
        su == uq.s
        t == prev.ValueType
        typ == s.ValueType
        compat ==
            IF prev.Predicate = "" THEN NoErr
            ELSE IF IsScalar(t) /\ (t = "PASSWORD" \/ typ = "PASSWORD")
            THEN (IF t # typ THEN "ErrPasswordChange" ELSE NoErr)
            ELSE IF IsScalar(t) = IsScalar(typ)
            THEN (IF prev.List /\ ~s.List /\ edges THEN "ErrListChange" ELSE NoErr)
            ELSE (IF edges THEN "ErrUidScalarChange" ELSE NoErr)
    IN
    IF s.Predicate = "" THEN [err |-> "ErrNoPredicate", s |-> s]
    ELSE IF IsInternalPredicate(s.Predicate) THEN [err |-> "ErrInternalName", s |-> s]
    ELSE IF typ = "UID" /\ s.Directive = "INDEX" THEN [err |-> "ErrIndexOnUid", s |-> s]
    ELSE IF typ # "UID" /\ s.Directive = "REVERSE"
    THEN [err |-> "ErrReverseOnScalar", s |-> s]
    ELSE IF s.Upsert /\ s.Tokenizer = {} /\ ~s.Unique
    THEN [err |-> "ErrUpsertNoIndex", s |-> s]
    ELSE IF uq.err # NoErr THEN uq
    ELSE [err |-> compat, s |-> su]

(***************************************************************************)
(* checkSchema(s), given the schema state it reads: prev is the in-memory  *)
(* schema of s.Predicate (ZeroSchema when there is none) and edges is      *)
(* hasEdges(s.Predicate, MaxUint64).  The result is the error and the      *)
(* update as checkSchema leaves it.                                        *)
(***************************************************************************)
checkSchema(s, prev, edges) ==
    LET uq == IF s.Unique THEN validateSchemaForUnique(prev, s)
                          ELSE [err |-> NoErr, s |-> s]
        su == uq.s
        t == prev.ValueType
        typ == s.ValueType
        compat ==
            IF prev.Predicate = "" THEN NoErr
            ELSE IF IsScalar(t) /\ (t = "PASSWORD" \/ typ = "PASSWORD")
            THEN (IF t # typ THEN "ErrPasswordChange" ELSE NoErr)
            ELSE IF IsScalar(t) = IsScalar(typ)
            THEN (IF prev.List /\ ~s.List /\ edges THEN "ErrListChange" ELSE NoErr)
            ELSE (IF edges THEN "ErrUidScalarChange" ELSE NoErr)
    IN
    IF s.Predicate = "" THEN [err |-> "ErrNoPredicate", s |-> s]
    ELSE IF IsInternalPredicate(s.Predicate) THEN [err |-> "ErrInternalName", s |-> s]
    ELSE IF s.Directive = "INDEX" /\ ~HasTokenizerOrVectorIndexSpec(s)
    THEN [err |-> "ErrTokenizerMissing", s |-> s]
    ELSE IF HasTokenizerOrVectorIndexSpec(s) /\ s.Directive # "INDEX"
    THEN [err |-> "ErrDirectiveNotIndex", s |-> s]
    ELSE IF typ = "UID" /\ s.Directive = "INDEX" THEN [err |-> "ErrIndexOnUid", s |-> s]
    ELSE IF typ # "UID" /\ s.Directive = "REVERSE"
    THEN [err |-> "ErrReverseOnScalar", s |-> s]
    ELSE IF s.Upsert /\ s.Tokenizer = {} /\ ~s.Unique
    THEN [err |-> "ErrUpsertNoIndex", s |-> s]
    ELSE IF uq.err # NoErr THEN uq
    ELSE [err |-> compat, s |-> su]


(***************************************************************************)
(* The schema updates the batches are made of.  For each predicate: the    *)
(* string schema with an exact index (an index rebuild against the plain   *)
(* string schema a node starts with), the indexed one with @upsert (no     *)
(* rebuild against the indexed one) and an index directive without a       *)
(* tokenizer (which checkSchema rejects).  A batch names a predicate once, *)
(* and the model draws its updates one by one as the loop reaches them.    *)
(***************************************************************************)
Plain(p) == [ZeroSchema EXCEPT !.Predicate = p, !.ValueType = "STRING"]

Indexed(p) == [Plain(p) EXCEPT !.Directive = "INDEX", !.Tokenizer = {"exact"}]

IndexedUpsert(p) == [Indexed(p) EXCEPT !.Upsert = TRUE]

NoTokenizer(p) == [Plain(p) EXCEPT !.Directive = "INDEX"]

Updates == UNION {{Indexed(p), IndexedUpsert(p), NoTokenizer(p)} : p \in Preds}

\* len(updates) of a batch
BatchLens == 0..Cardinality(Preds)

Calls == 1..MaxCalls

VARIABLES
    predicate,     \* schema.State().predicate: the schema queries see
    mutSchema,     \* schema.State().mutSchema: the schemas being indexed
    durable,       \* the schema records of the store (pstore, x.SchemaKey)
    hasData,       \* whether the store holds a non-empty posting of the predicate
    opIndexing,    \* gr.Node.ops[opIndexing]: 0, or the call whose closer runs the task
    closerDone,    \* per closer, how many times Done was called on it
    fatal,         \* glog.Fatalf has ended the process
    lastUndo,      \* the latest undoSchemaUpdate of UndoStep: its predicate, the first
                   \* attempt schema.Load answers with success, the attempts made
    ret,           \* the latest return of runSchemaMutation: the call, its error and
                   \* the updates it had processed with no rebuild needed
    pc,            \* per call: where runSchemaMutation stands
    updates,       \* per call: how many schema updates are not yet processed
    visited,       \* per call: the predicates of the updates processed
    synced,        \* per call: the updates processed with no rebuild needed
    maxAtATime,    \* per call: maxPredicateAtATime, the capacity of throttle
    closer,        \* per call: the local closer, 0 for nil
    done,          \* per call: the local done flag of stopIndexing
    wg,            \* per call: the counter of the local wait group
    throttle,      \* per call: the slots of throttle in use
    rebuild,       \* per call: the posting.IndexRebuild of the update in setup
    g              \* per call and predicate: the buildIndexes goroutine

(***************************************************************************)
(* The state of MutateOverNetwork (one call, with its proposeOrSend        *)
(* goroutines), and the argument and the result of the functions that are  *)
(* applied on their own.                                                   *)
(***************************************************************************)
VARIABLES
    m,             \* MutateOverNetwork: the batch, *pb.Mutations
    mutationMap,   \* MutateOverNetwork: the partitions by group id
    undispatched,  \* the group ids the loop of line 763 has not reached yet
    shard,         \* per group id: the proposeOrSend goroutine and its res
    resCh,         \* the channel resCh, a queue of res
    received,      \* how many res the loop of line 778 has taken from resCh
    out,           \* what MutateOverNetwork returned: the context and the error
    tctx,          \* MutateOverNetwork: the transaction context that is returned
    e,             \* MutateOverNetwork: the error that is returned
    mpc,           \* where MutateOverNetwork stands
    ctxDone,       \* the context of the caller is cancelled
    arg,           \* the function applied on its own and its argument
    result         \* what it returned

schemaVars == <<predicate, mutSchema, durable>>

netVars == <<m, mutationMap, undispatched, shard, resCh, received, tctx, e, mpc, ctxDone, out>>

fnVars == <<arg, result>>

nodeVars == <<hasData, lastUndo, netVars, fnVars>>

coordVars == <<opIndexing, closerDone, fatal, ret, pc, updates, visited, synced,
               maxAtATime, closer, done, wg, throttle, rebuild, g>>

vars == <<predicate, mutSchema, durable, hasData, opIndexing, closerDone, fatal,
          lastUndo, ret, pc, updates, visited, synced, maxAtATime, closer, done,
          wg, throttle, rebuild, g, netVars, fnVars>>

\* the variables of the schema state, as one value the schema operations map
SchemaState == [predicate |-> predicate, mutSchema |-> mutSchema, durable |-> durable]

\* schema.State().Set
Set(st, p, s) == [st EXCEPT !.predicate[p] = s]

\* schema.State().SetMutSchema
SetMutSchema(st, p, s) == [st EXCEPT !.mutSchema[p] = s]

\* schema.State().DeleteMutSchema
DeleteMutSchema(st, p) == [st EXCEPT !.mutSchema[p] = ZeroSchema]

\* schema.State().IndexingInProgress: some predicate has a pending mutation schema
IndexingInProgress(ms) == \E p \in Preds : ms[p].Predicate # ""

\* posting.IndexRebuild.NeedIndexRebuild: the comparison of the old and the new schema
NeedIndexRebuild(old, cur) ==
    \/ old.Directive # cur.Directive
    \/ old.Tokenizer # cur.Tokenizer
    \/ old.Count # cur.Count
    \/ old.Lang # cur.Lang
    \/ old.List # cur.List
    \/ old.ValueType # cur.ValueType

\* posting.IndexRebuild.GetQuerySchema: the schema published while the indexes are built
GetQuerySchema(old, cur) == cur

(***************************************************************************)
(* updateSchema(s, ts), lines 281-297: sets the schema in memory, removes  *)
(* the pending mutation schema and commits the schema record; commitOk is  *)
(* whether SetEntry and CommitAt succeed.                                  *)
(***************************************************************************)
updateSchemaKeepsMutSchema(st, s, commitOk) ==
    LET mem == Set(st, s.Predicate, s) IN
    IF commitOk THEN [mem EXCEPT !.durable[s.Predicate] = s] ELSE mem

updateSchemaInMemory(st, s, commitOk) ==
    DeleteMutSchema(Set(st, s.Predicate, s), s.Predicate)

updateSchema(st, s, commitOk) ==
    LET mem == DeleteMutSchema(Set(st, s.Predicate, s), s.Predicate) IN
    IF commitOk THEN [mem EXCEPT !.durable[s.Predicate] = s] ELSE mem

\* schema.Load: the in-memory schema of the predicate is read back from the store
Load(st, p) == [st EXCEPT !.predicate[p] = st.durable[p], !.mutSchema[p] = ZeroSchema]

(***************************************************************************)
(* x.RetryUntilSuccess(maxRetries, wait, f), f failing on every attempt    *)
(* before attempt firstOk: the number of attempts made and whether the     *)
(* last one succeeded.                                                     *)
(***************************************************************************)
RetryUntilSuccess(maxRetries, firstOk) ==
    [attempts |-> IF firstOk <= maxRetries THEN firstOk ELSE maxRetries,
     ok |-> firstOk <= maxRetries]

\* what schema.Load can answer to the attempts of one undoSchemaUpdate: the first
\* attempt that succeeds, MaxRetries + 1 when none of the allowed ones does
LoadOutcomes == 1..(MaxRetries + 1)

\* the two kinds of them: the reload succeeds (at once) or fails on every attempt
LoadKinds == {1, MaxRetries + 1}

(***************************************************************************)
(* undoSchemaUpdate(predicate), lines 120-129: reloads the schema with at  *)
(* most maxRetries attempts, and ends the process when none succeeds.      *)
(***************************************************************************)
undoSchemaUpdateGivesUp(st, p, firstOk) ==
    LET r == RetryUntilSuccess(MaxRetries, firstOk) IN
    [st |-> IF r.ok THEN Load(st, p) ELSE st,
     fatal |-> FALSE,
     attempts |-> r.attempts]

undoSchemaUpdate(st, p, firstOk) ==
    LET r == RetryUntilSuccess(MaxRetries, firstOk) IN
    [st |-> IF r.ok THEN Load(st, p) ELSE st,
     fatal |-> ~r.ok,
     attempts |-> r.attempts]

\* rebuild and the goroutine also keep the schema record the store held when the
\* update began (before), which the code does not hold
NoRebuild == [ok |-> FALSE, OldSchema |-> ZeroSchema, CurrentSchema |-> ZeroSchema,
              shouldRebuild |-> FALSE, before |-> ZeroSchema]

NoGoroutine == [st |-> "none", cl |-> 0, update |-> ZeroSchema, out |-> {},
                before |-> ZeroSchema]

NoReturn == [c |-> 0, err |-> NoErr, synced |-> {}]

NoUndo == [p |-> "", firstOk |-> 0, attempts |-> 0]

(***************************************************************************)
(* pb.Mutations, api.TxnContext and res, and the state with no             *)
(* MutateOverNetwork call and no function applied.                         *)
(***************************************************************************)
NoMutations == [Edges |-> <<>>, Schema |-> <<>>, Types |-> <<>>, DropOp |-> 0,
                DropValue |-> "", Metadata |-> "nil", StartTs |-> 0]

NoTxnContext == [StartTs |-> 0, Keys |-> <<>>, Preds |-> <<>>]

\* a proposeOrSend goroutine that was not launched
\* a pointer to a transaction context: nil, or the context it points to
Nil == <<>>

Ptr(tc) == <<tc>>

NoRes == [err |-> NoErr, ctx |-> Nil, from |-> 0]

NoCall == [st |-> "none", waitForTs |-> "none", proposed |-> FALSE, filled |-> FALSE,
           rpc |-> "none", ch |-> <<>>, res |-> NoRes]

\* MutateOverNetwork has not returned
NoOut == [tctx |-> NoTxnContext, err |-> NoErr]

NetIdle ==
    /\ m = NoMutations
    /\ mutationMap = <<>>
    /\ undispatched = {}
    /\ shard = <<>>
    /\ resCh = <<>>
    /\ received = 0
    /\ out = NoOut
    /\ tctx = NoTxnContext
    /\ e = NoErr
    /\ mpc = "idle"
    /\ ctxDone = FALSE

FnIdle == arg = [fn |-> "none"] /\ result = [fn |-> "none"]

\* the stored schemas a node starts with: none, or the plain one
Init ==
    /\ NetIdle
    /\ FnIdle
    /\ durable \in [Preds -> {ZeroSchema} \cup {Plain(p) : p \in Preds}]
    /\ \A p \in Preds : durable[p].Predicate \in {"", p}
    /\ predicate = durable
    /\ mutSchema = [p \in Preds |-> ZeroSchema]
    /\ hasData = [p \in Preds |-> TRUE]
    /\ opIndexing = 0
    /\ closerDone = [c \in Calls |-> 0]
    /\ fatal = FALSE
    /\ lastUndo = NoUndo
    /\ ret = NoReturn
    /\ pc = [c \in Calls |-> "idle"]
    /\ updates = [c \in Calls |-> 0]
    /\ visited = [c \in Calls |-> {}]
    /\ synced = [c \in Calls |-> {}]
    /\ maxAtATime = [c \in Calls |-> 0]
    /\ closer = [c \in Calls |-> 0]
    /\ done = [c \in Calls |-> 0]
    /\ wg = [c \in Calls |-> 0]
    /\ throttle = [c \in Calls |-> 0]
    /\ rebuild = [c \in Calls |-> NoRebuild]
    /\ g = [c \in Calls |-> [p \in Preds |-> NoGoroutine]]

(***************************************************************************)
(* Pieces of the actions.                                                  *)
(***************************************************************************)
SetSchemaState(st) ==
    /\ predicate' = st.predicate
    /\ mutSchema' = st.mutSchema
    /\ durable' = st.durable

\* gr.Node.isRunningTask(opIndexing)
isRunningTask(op) == op # 0

\* closer.Done() on closer k (nil is 0), when fire holds: the task of the closer is over
CloserDone(fire, k) ==
    /\ closerDone' = IF fire /\ k # 0 THEN [closerDone EXCEPT ![k] = @ + 1]
                                     ELSE closerDone
    /\ opIndexing' = IF fire /\ k # 0 /\ opIndexing = k THEN 0 ELSE opIndexing

(***************************************************************************)
(* stopIndexing, lines 153-167, in its two steps.  stopIndexingObserves is *)
(* the read of line 155.  stopIndexingSwap is the compare-and-swap of line *)
(* 156 on the flag done: the flag after it, and whether closer.Done() is   *)
(* called.  The snapshot proposal that follows changes nothing of this     *)
(* state.                                                                  *)
(***************************************************************************)
stopIndexingObservesNothing(ms) == TRUE

stopIndexingObserves(ms) == ~IndexingInProgress(ms)

stopIndexingSwapUnguarded(dn) == [done |-> 1, fire |-> TRUE]

stopIndexingSwap(dn) == [done |-> 1, fire |-> dn = 0]

(***************************************************************************)
(* A call is over when runSchemaMutation has returned and the goroutines   *)
(* it launched have ended: its locals, which the closures shared, are then *)
(* gone.  Over(c, pcs, gs) says so of call c in the state with pc = pcs    *)
(* and g = gs.                                                             *)
(***************************************************************************)
Over(c, pcs, gs) == pcs[c] = "returned" /\ \A p \in Preds : gs[c][p].st = "none"

\* the locals closer, done and maxAtATime of call c after a step that leaves closer
\* and done at cl and dn
Locals(c, cl, dn) ==
    /\ closer' = [closer EXCEPT ![c] = IF Over(c, pc', g') THEN 0 ELSE cl]
    /\ done' = [done EXCEPT ![c] = IF Over(c, pc', g') THEN 0 ELSE dn]
    /\ maxAtATime' = [maxAtATime EXCEPT ![c] = IF Over(c, pc', g') THEN 0 ELSE @]

(***************************************************************************)
(* The return of runSchemaMutation with closer cl: the deferred            *)
(* stopIndexing(closer), registered when this call started the task, runs  *)
(* first and the deferred wg.Done() after it.                              *)
(***************************************************************************)
Returning(c, err, cl, sy) ==
    /\ ret' = [c |-> c, err |-> err, synced |-> sy]
    /\ updates' = [updates EXCEPT ![c] = 0]
    /\ visited' = [visited EXCEPT ![c] = {}]
    /\ synced' = [synced EXCEPT ![c] = {}]
    /\ rebuild' = [rebuild EXCEPT ![c] = NoRebuild]
    /\ IF cl # 0
       THEN pc' = [pc EXCEPT ![c] = "retStop"] /\ wg' = wg
       ELSE pc' = [pc EXCEPT ![c] = "returned"] /\ wg' = [wg EXCEPT ![c] = 0]

\* the end of one round of the loop over updates: the next update, or return nil
Advance(c, cl, p, sy) ==
    IF updates[c] > 1
    THEN /\ updates' = [updates EXCEPT ![c] = @ - 1]
         /\ visited' = [visited EXCEPT ![c] = @ \cup {p}]
         /\ synced' = [synced EXCEPT ![c] = sy]
         /\ rebuild' = [rebuild EXCEPT ![c] = NoRebuild]
         /\ pc' = [pc EXCEPT ![c] = "loop"]
         /\ UNCHANGED <<ret, wg>>
    ELSE Returning(c, NoErr, cl, sy)

(***************************************************************************)
(* runSchemaMutation(ctx, updates, startTs), lines 131-134: the call, with *)
(* a batch of n updates.  The caller has taken the result of the call      *)
(* before.                                                                 *)
(***************************************************************************)
Call(c) ==
    /\ ~fatal
    /\ pc[c] = "idle"
    /\ \A d \in Calls : d < c => pc[d] # "idle"
    /\ \E n \in BatchLens :
         /\ pc' = [pc EXCEPT ![c] = IF n = 0 THEN "returned" ELSE "wait"]
         /\ updates' = [updates EXCEPT ![c] = n]
         /\ ret' = IF n = 0 THEN [c |-> c, err |-> NoErr, synced |-> {}] ELSE NoReturn
    /\ UNCHANGED <<schemaVars, nodeVars, opIndexing, closerDone, fatal, visited, synced,
                   maxAtATime, closer, done, wg, throttle, rebuild, g>>

\* the proposals of a node are applied one after another
CallSerial(c) ==
    /\ \A d \in Calls \ {c} : pc[d] \in {"idle", "returned"}
    /\ Call(c)

waitForTaskSkipped(op) == TRUE

\* gr.Node.waitForTask(opIndexing) of line 148 returns once the task is not running
waitForTaskReturns(op) == ~isRunningTask(op)

(***************************************************************************)
(* Lines 148-195: waitForTask(opIndexing) returns once no indexing task    *)
(* runs; then the locals done, wg (with Add(1)) and throttle are set up.   *)
(***************************************************************************)
WaitForTask(c) ==
    /\ ~fatal
    /\ pc[c] = "wait"
    /\ waitForTaskReturns(opIndexing)
    /\ pc' = [pc EXCEPT ![c] = "loop"]
    /\ done' = [done EXCEPT ![c] = 0]
    /\ wg' = [wg EXCEPT ![c] = 1]
    /\ maxAtATime' = [maxAtATime EXCEPT ![c] =
            IF updates[c] < MaxPredicateAtATime THEN updates[c]
            ELSE MaxPredicateAtATime]
    /\ throttle' = [throttle EXCEPT ![c] = 0]
    /\ closer' = [closer EXCEPT ![c] = 0]
    /\ UNCHANGED <<schemaVars, nodeVars, opIndexing, closerDone, fatal, ret, updates,
                   visited, synced, rebuild, g>>

publishDurably(st, p, old, su) == updateSchema(st, su, TRUE)

\* lines 247-251: the schema is set in memory only, as query and as mutation schema
publish(st, p, old, su) == SetMutSchema(Set(st, p, GetQuerySchema(old, su)), p, su)

(***************************************************************************)
(* Lines 217-257, one round of the loop up to the start of setup: the      *)
(* tablet check (tab is what groups().Tablet answers), checkSchema, the    *)
(* start of the opIndexing task (startOk is whether startTaskAtTs          *)
(* succeeds), the schema set in memory.  With no schema before, setup does *)
(* nothing and updateSchema follows at once (lines 255-257, 271-273).      *)
(***************************************************************************)
Iterate(c) ==
    /\ ~fatal
    /\ pc[c] = "loop"
    /\ UNCHANGED <<nodeVars, closerDone, fatal, throttle, g>>
    /\ \E tab \in {NoErr, "ErrTablet", "ErrNotServed"} :
         IF tab # NoErr
         THEN /\ Returning(c, tab, closer[c], synced[c])
              /\ Locals(c, closer[c], done[c])
              /\ UNCHANGED <<schemaVars, opIndexing>>
         ELSE \E su0 \in {u \in Updates : u.Predicate \notin visited[c]} :
           LET p == su0.Predicate
               chk == checkSchema(su0, predicate[p], hasData[p])
               su == chk.s
               old == predicate[p]
               ok == old.Predicate # ""
               shouldRebuild == ok /\ NeedIndexRebuild(old, su)
               start == shouldRebuild /\ ~isRunningTask(opIndexing)
               mem == publish(SchemaState, p, old, su)
           IN
           IF chk.err # NoErr
           THEN /\ Returning(c, chk.err, closer[c], synced[c])
                /\ Locals(c, closer[c], done[c])
                /\ UNCHANGED <<schemaVars, opIndexing>>
           ELSE \E startOk \in IF start THEN BOOLEAN ELSE {TRUE} :
             IF ~startOk
             THEN /\ Returning(c, "ErrStartTask", 0, synced[c])
                  /\ Locals(c, 0, done[c])
                  /\ UNCHANGED <<schemaVars, opIndexing>>
             ELSE LET cl == IF start THEN c ELSE closer[c] IN
               /\ opIndexing' = IF start THEN c ELSE opIndexing
               /\ IF ok
                  THEN /\ SetSchemaState(mem)
                       /\ rebuild' = [rebuild EXCEPT ![c] =
                              [ok |-> ok, OldSchema |-> old, CurrentSchema |-> su,
                               shouldRebuild |-> shouldRebuild,
                               before |-> durable[p]]]
                       /\ pc' = [pc EXCEPT ![c] = "setup"]
                       /\ UNCHANGED <<updates, visited, synced, ret, wg>>
                  ELSE \E commitOk \in BOOLEAN :
                         /\ SetSchemaState(updateSchema(mem, su, commitOk))
                         /\ IF commitOk
                            THEN Advance(c, cl, p, synced[c] \cup {su})
                            ELSE Returning(c, "ErrCommit", cl, synced[c] \cup {su})
               /\ Locals(c, cl, done[c])

(***************************************************************************)
(* Lines 258-273, the end of setup (DropIndexes, then BuildData) and what  *)
(* follows it: on an error the schema is reloaded and the error returned;  *)
(* otherwise the buildIndexes goroutine is launched, or, with no rebuild   *)
(* needed, updateSchema commits the update.                                *)
(***************************************************************************)
SetupDone(c) ==
    /\ ~fatal
    /\ pc[c] = "setup"
    /\ \E setupOk \in BOOLEAN :
         LET su == rebuild[c].CurrentSchema
             p == su.Predicate
         IN
         IF ~setupOk
         THEN /\ \E firstOk \in LoadKinds :
                   LET undo == undoSchemaUpdate(SchemaState, p, firstOk) IN
                   /\ SetSchemaState(undo.st)
                   /\ fatal' = undo.fatal
                   /\ IF undo.fatal
                      THEN UNCHANGED <<pc, updates, visited, synced, rebuild, ret, wg>>
                      ELSE Returning(c, "ErrSetup", closer[c], synced[c])
              /\ UNCHANGED g
         ELSE IF rebuild[c].shouldRebuild
         THEN /\ g' = [g EXCEPT ![c][p] =
                     [st |-> "wgWait", cl |-> closer[c], update |-> su, out |-> {},
                      before |-> rebuild[c].before]]
              /\ Advance(c, closer[c], p, synced[c])
              /\ UNCHANGED <<schemaVars, fatal>>
         ELSE /\ \E commitOk \in BOOLEAN :
                   /\ SetSchemaState(updateSchema(SchemaState, su, commitOk))
                   /\ IF commitOk
                      THEN Advance(c, closer[c], p, synced[c] \cup {su})
                      ELSE Returning(c, "ErrCommit", closer[c], synced[c] \cup {su})
              /\ UNCHANGED <<g, fatal>>
    /\ Locals(c, closer[c], done[c])
    /\ UNCHANGED <<nodeVars, opIndexing, closerDone, throttle>>

(***************************************************************************)
(* The deferred stopIndexing(closer) of line 244 and the deferred          *)
(* wg.Done() of line 186, at the return of runSchemaMutation.              *)
(***************************************************************************)
RetStopCheck(c) ==
    /\ ~fatal
    /\ pc[c] = "retStop"
    /\ IF stopIndexingObserves(mutSchema)
       THEN pc' = [pc EXCEPT ![c] = "retCas"] /\ wg' = wg
       ELSE pc' = [pc EXCEPT ![c] = "returned"] /\ wg' = [wg EXCEPT ![c] = 0]
    /\ UNCHANGED <<schemaVars, nodeVars, opIndexing, closerDone, fatal, ret, updates,
                   visited, synced, throttle, rebuild, g>>
    /\ Locals(c, closer[c], done[c])

RetStopSwap(c) ==
    /\ ~fatal
    /\ pc[c] = "retCas"
    /\ CloserDone(stopIndexingSwap(done[c]).fire, closer[c])
    /\ pc' = [pc EXCEPT ![c] = "returned"]
    /\ wg' = [wg EXCEPT ![c] = 0]
    /\ UNCHANGED <<schemaVars, nodeVars, fatal, ret, updates, visited, synced,
                   throttle, rebuild, g>>
    /\ Locals(c, closer[c], stopIndexingSwap(done[c]).done)

(***************************************************************************)
(* buildIndexesHelper(update, rebuild), lines 169-180: BuildIndexes, then  *)
(* updateSchema.  buildOk and commitOk are what the storage calls answer.  *)
(***************************************************************************)
buildIndexesHelperCommitsFirst(st, su, buildOk, commitOk) ==
    [st |-> updateSchema(st, su, TRUE),
     err |-> IF ~buildOk THEN "ErrBuild" ELSE IF commitOk THEN NoErr ELSE "ErrCommit"]

buildIndexesHelper(st, su, buildOk, commitOk) ==
    IF ~buildOk THEN [st |-> st, err |-> "ErrBuild"]
    ELSE [st |-> updateSchema(st, su, commitOk),
          err |-> IF commitOk THEN NoErr ELSE "ErrCommit"]

wgWaitSkipped(c) == TRUE

\* wg.Wait() of line 205 returns once runSchemaMutation has returned
wgWaitReturns(c) == wg[c] = 0

throttleDoNeverReturns(c) == FALSE

\* throttle.Do() of line 207 returns once a slot of the throttle is free
throttleDoReturns(c) == throttle[c] < maxAtATime[c]

throttleDoneKeeps(n) == n

\* throttle.Done(nil) of line 213 gives the slot back
throttleDone(n) == n - 1

(***************************************************************************)
(* buildIndexes(update, rebuild, c), lines 197-214, the goroutine of       *)
(* predicate p launched by call c.  GoStart: wg.Wait() and throttle.Do()   *)
(* have returned and BuildIndexes begins.                                  *)
(***************************************************************************)
GoStart(c, p) ==
    /\ ~fatal
    /\ g[c][p].st = "wgWait"
    /\ wgWaitReturns(c)
    /\ throttleDoReturns(c)
    /\ g' = [g EXCEPT ![c][p].st = "building"]
    /\ throttle' = [throttle EXCEPT ![c] = @ + 1]
    /\ UNCHANGED <<schemaVars, nodeVars, opIndexing, closerDone, fatal, ret, pc,
                   updates, visited, synced, maxAtATime, closer, done, wg, rebuild>>

(***************************************************************************)
(* Lines 209-213: buildIndexesHelper ends; on an error undoSchemaUpdate    *)
(* reloads the schema; throttle.Done gives the slot back.  The outcome of  *)
(* the rebuild is Committed when the schema record was written and         *)
(* RolledBack when undoSchemaUpdate ran.                                   *)
(***************************************************************************)
GoFinish(c, p) ==
    /\ ~fatal
    /\ g[c][p].st = "building"
    /\ \E buildOk \in BOOLEAN : \E commitOk \in IF buildOk THEN BOOLEAN ELSE {FALSE} :
         LET su == g[c][p].update
             h == buildIndexesHelper(SchemaState, su, buildOk, commitOk)
             wrote == IF h.st.durable[p] = su /\ durable[p] # su THEN {"Committed"}
                      ELSE {}
         IN
         IF h.err = NoErr
         THEN /\ SetSchemaState(h.st)
              /\ g' = [g EXCEPT ![c][p] =
                         [@ EXCEPT !.st = "stopCheck", !.out = wrote]]
              /\ throttle' = [throttle EXCEPT ![c] = throttleDone(@)]
              /\ UNCHANGED fatal
         ELSE \E firstOk \in LoadKinds :
                LET undo == undoSchemaUpdate(h.st, p, firstOk) IN
                /\ SetSchemaState(undo.st)
                /\ fatal' = undo.fatal
                /\ IF undo.fatal
                   THEN UNCHANGED <<g, throttle>>
                   ELSE /\ g' = [g EXCEPT ![c][p] =
                                   [@ EXCEPT !.st = "stopCheck",
                                             !.out = wrote \cup {"RolledBack"}]]
                        /\ throttle' = [throttle EXCEPT ![c] = throttleDone(@)]
    /\ UNCHANGED <<nodeVars, opIndexing, closerDone, ret, pc, updates, visited,
                   synced, maxAtATime, closer, done, wg, rebuild>>

\* the deferred stopIndexing(c) of line 199, when buildIndexes returns
GoStopCheck(c, p) ==
    /\ ~fatal
    /\ g[c][p].st = "stopCheck"
    /\ g' = [g EXCEPT ![c][p] =
               IF stopIndexingObserves(mutSchema) THEN [@ EXCEPT !.st = "stopCas"]
               ELSE NoGoroutine]
    /\ pc' = pc
    /\ Locals(c, closer[c], done[c])
    /\ UNCHANGED <<schemaVars, nodeVars, opIndexing, closerDone, fatal, ret, updates,
                   visited, synced, wg, throttle, rebuild>>

GoStopSwap(c, p) ==
    /\ ~fatal
    /\ g[c][p].st = "stopCas"
    /\ CloserDone(stopIndexingSwap(done[c]).fire, g[c][p].cl)
    /\ g' = [g EXCEPT ![c][p] = NoGoroutine]
    /\ pc' = pc
    /\ Locals(c, closer[c], stopIndexingSwap(done[c]).done)
    /\ UNCHANGED <<schemaVars, nodeVars, fatal, ret, updates, visited, synced, wg,
                   throttle, rebuild>>

(***************************************************************************)
(* The specifications.  Spec: the schema-mutation batches of a node are    *)
(* applied one after another, the background rebuilds of a batch going on  *)
(* after its call has returned.  SpecConc: the calls may overlap.          *)
(***************************************************************************)
Steps(c) ==
    \/ WaitForTask(c)
    \/ Iterate(c)
    \/ SetupDone(c)
    \/ RetStopCheck(c)
    \/ RetStopSwap(c)
    \/ \E p \in Preds : GoStart(c, p)
    \/ \E p \in Preds : GoFinish(c, p)
    \/ \E p \in Preds : GoStopCheck(c, p)
    \/ \E p \in Preds : GoStopSwap(c, p)

Next == \E c \in Calls : CallSerial(c) \/ Steps(c)

Spec == Init /\ [][Next]_vars

NextConc == \E c \in Calls : Call(c) \/ Steps(c)

SpecConc == Init /\ [][NextConc]_vars

(***************************************************************************)
(* SpecFair: Spec with the steps scheduled fairly.  The Go scheduler runs  *)
(* every goroutine that can run and the storage calls return, so a step    *)
(* that stays possible is taken.                                           *)
(***************************************************************************)
SpecFair == Spec /\ WF_vars(Next)

(***************************************************************************)
(* SpecUndo: undoSchemaUpdate on its own.  The schema state is one that a  *)
(* failed schema update leaves: the store holds no schema, the plain or    *)
(* the indexed one, the memory holds the stored schema or a newer one, and *)
(* the pending mutation schema is the one in memory, or none.              *)
(***************************************************************************)
InitUndo ==
    /\ NetIdle
    /\ FnIdle
    /\ durable \in [Preds -> {ZeroSchema} \cup UNION {{Plain(p), Indexed(p)} : p \in Preds}]
    /\ predicate \in [Preds -> UNION {{Plain(p), Indexed(p), IndexedUpsert(p)} : p \in Preds}]
    /\ mutSchema \in [Preds -> {ZeroSchema} \cup UNION {{Indexed(p), IndexedUpsert(p)} : p \in Preds}]
    /\ \A p \in Preds :
         /\ durable[p].Predicate \in {"", p}
         /\ predicate[p].Predicate = p
         /\ mutSchema[p] \in {ZeroSchema, predicate[p]}
    /\ hasData = [p \in Preds |-> TRUE]
    /\ opIndexing = 0
    /\ closerDone = [c \in Calls |-> 0]
    /\ fatal = FALSE
    /\ lastUndo = NoUndo
    /\ ret = NoReturn
    /\ pc = [c \in Calls |-> "idle"]
    /\ updates = [c \in Calls |-> 0]
    /\ visited = [c \in Calls |-> {}]
    /\ synced = [c \in Calls |-> {}]
    /\ maxAtATime = [c \in Calls |-> 0]
    /\ closer = [c \in Calls |-> 0]
    /\ done = [c \in Calls |-> 0]
    /\ wg = [c \in Calls |-> 0]
    /\ throttle = [c \in Calls |-> 0]
    /\ rebuild = [c \in Calls |-> NoRebuild]
    /\ g = [c \in Calls |-> [p \in Preds |-> NoGoroutine]]

\* undoSchemaUpdate(p), lines 120-129, schema.Load succeeding first at attempt firstOk
UndoStep(p) ==
    /\ ~fatal
    /\ \E firstOk \in LoadOutcomes :
         LET undo == undoSchemaUpdate(SchemaState, p, firstOk) IN
         /\ SetSchemaState(undo.st)
         /\ fatal' = undo.fatal
         /\ lastUndo' = [p |-> p, firstOk |-> firstOk, attempts |-> undo.attempts]
    /\ UNCHANGED <<hasData, opIndexing, closerDone, ret, pc, updates, visited, synced,
                   maxAtATime, closer, done, wg, throttle, rebuild, g, netVars, fnVars>>

NextUndo == \E p \in Preds : UndoStep(p)

SpecUndo == InitUndo /\ [][NextUndo]_vars

(***************************************************************************)
(* The cluster as the router sees it.  The predicates name and nick are    *)
(* served by group 1, age and ghost by group 2; orphan has no tablet, for  *)
(* which BelongsTo answers the group id 0; for unknown it answers an       *)
(* error.                                                                  *)
(***************************************************************************)
Attrs == {"name", "nick", "age", "orphan", "unknown"}

\* groups().KnownGroups
KnownGroups == {1, 2}

\* the group ids a partition can have: the known groups and 0, which is no group
Groups == {0} \cup KnownGroups

\* groups().BelongsTo
BelongsTo(attr) ==
    CASE attr \in {"name", "nick"} -> [gid |-> 1, err |-> NoErr]
      [] attr \in {"age", "ghost"} -> [gid |-> 2, err |-> NoErr]
      [] attr = "orphan" -> [gid |-> 0, err |-> NoErr]
      [] OTHER -> [gid |-> 0, err |-> "ErrBelongsTo"]

\* &pb.Mutations{GroupId: gid}
NewMutations(gid) ==
    [GroupId |-> gid, Edges |-> <<>>, Schema |-> <<>>, Types |-> <<>>, DropOp |-> 0,
     DropValue |-> "", Metadata |-> "nil", StartTs |-> 0]

\* lines 692-696 and alike: mm with the partition of gid, made when it is missing
WithGroup(mm, gid) == IF gid \in DOMAIN mm THEN mm ELSE mm @@ (gid :> NewMutations(gid))

\* lines 686-699, the loop over src.Edges from edge i on
RECURSIVE addEdges(_, _, _)
addEdges(mm, src, i) ==
    IF i > Len(src.Edges) THEN [mm |-> mm, err |-> NoErr]
    ELSE LET edge == src.Edges[i]
             b == BelongsTo(edge.Attr)
         IN
         IF b.err # NoErr THEN [mm |-> <<>>, err |-> b.err]
         ELSE addEdges([WithGroup(mm, b.gid) EXCEPT
                           ![b.gid].Edges = Append(@, edge),
                           ![b.gid].Metadata = src.Metadata],
                       src, i + 1)

\* lines 701-713, the loop over src.Schema from update i on
RECURSIVE addSchema(_, _, _)
addSchema(mm, src, i) ==
    IF i > Len(src.Schema) THEN [mm |-> mm, err |-> NoErr]
    ELSE LET schema == src.Schema[i]
             b == BelongsTo(schema.Predicate)
         IN
         IF b.err # NoErr THEN [mm |-> <<>>, err |-> b.err]
         ELSE addSchema([WithGroup(mm, b.gid) EXCEPT ![b.gid].Schema = Append(@, schema)],
                        src, i + 1)

\* lines 715-725 without lines 718-721
addDropToExisting(mm, src) ==
    [gid \in DOMAIN mm |->
        IF gid \in KnownGroups /\ src.DropOp > 0
        THEN [mm[gid] EXCEPT !.DropOp = src.DropOp, !.DropValue = src.DropValue]
        ELSE mm[gid]]

\* lines 715-725: the drop operation goes to every known group
addDrop(mm, src) ==
    IF src.DropOp > 0
    THEN [gid \in DOMAIN mm \cup KnownGroups |->
            IF gid \in KnownGroups
            THEN [WithGroup(mm, gid)[gid] EXCEPT !.DropOp = src.DropOp,
                                                 !.DropValue = src.DropValue]
            ELSE mm[gid]]
    ELSE mm

\* lines 727-737: the type definitions go to every known group
addTypes(mm, src) ==
    IF Len(src.Types) > 0
    THEN [gid \in DOMAIN mm \cup KnownGroups |->
            IF gid \in KnownGroups
            THEN [WithGroup(mm, gid)[gid] EXCEPT !.Types = src.Types]
            ELSE mm[gid]]
    ELSE mm

(***************************************************************************)
(* populateMutationMap(src), lines 684-740: the map and the error.         *)
(***************************************************************************)
populateMutationMap(src) ==
    LET byEdges == addEdges(<<>>, src, 1)
        bySchema == addSchema(byEdges.mm, src, 1)
    IN
    IF byEdges.err # NoErr THEN byEdges
    ELSE IF bySchema.err # NoErr THEN bySchema
    ELSE [mm |-> addTypes(addDrop(bySchema.mm, src), src), err |-> NoErr]

(***************************************************************************)
(* Type updates.  The name of a field is the predicate, with a leading ~   *)
(* when the field is a reverse edge; the names used are "name", "~age" and *)
(* "ghost".                                                                *)
(***************************************************************************)
\* lines 811-815 and 837-841: the name of the field without the leading ~
fieldNameKept(name) == name

fieldName(name) == IF name = "~age" THEN "age" ELSE name

Field(name) ==
    [Predicate |-> name, ValueType |-> "DEFAULT", ObjectTypeName |-> "",
     Directive |-> "NONE", Tokenizer |-> <<>>]

TypeUpdate(typeName, fields) == [TypeName |-> typeName, Fields |-> fields]

\* typeSanityCheck(t), lines 857-878
typeSanityCheck(t) ==
    IF \E i \in 1..Len(t.Fields) : t.Fields[i].Predicate = "" THEN "ErrFieldName"
    ELSE IF \E i \in 1..Len(t.Fields) :
                t.Fields[i].ValueType = "OBJECT" /\ t.Fields[i].ObjectTypeName = ""
         THEN "ErrObjectType"
    ELSE IF \E i \in 1..Len(t.Fields) : t.Fields[i].Directive # "NONE" THEN "ErrFieldDirective"
    ELSE IF \E i \in 1..Len(t.Fields) : Len(t.Fields[i].Tokenizer) > 0 THEN "ErrFieldTokenizer"
    ELSE NoErr

\* the predicates the cluster has a schema for
ClusterSchema == {"name", "nick", "age"}

\* GetSchemaOverNetwork: the predicates among fields that have a schema
GetSchemaOverNetwork(fields) == fields \cap ClusterSchema

(***************************************************************************)
(* verifyTypes(ctx, m), lines 792-854.  lookupErr is the error of          *)
(* GetSchemaOverNetwork.  The first loop returns at the first type that is *)
(* refused, the last one at the first field that does not resolve.         *)
(***************************************************************************)
verifyTypes(mu, lookupErr) ==
    LET reqPredSet == {mu.Schema[i].Predicate : i \in 1..Len(mu.Schema)}
        refused(t) == t.TypeName = "" \/ typeSanityCheck(t) # NoErr
        names == UNION {{fieldName(mu.Types[i].Fields[j].Predicate) :
                            j \in 1..Len(mu.Types[i].Fields)} : i \in 1..Len(mu.Types)}
        fields == names \ reqPredSet
        schemaSet == GetSchemaOverNetwork(fields)
    IN
    IF \E i \in 1..Len(mu.Types) : refused(mu.Types[i])
    THEN LET i == CHOOSE k \in 1..Len(mu.Types) :
                      refused(mu.Types[k]) /\ \A l \in 1..(k - 1) : ~refused(mu.Types[l])
         IN IF mu.Types[i].TypeName = "" THEN "ErrTypeName" ELSE typeSanityCheck(mu.Types[i])
    ELSE IF lookupErr # NoErr THEN "ErrRetrievePredicate"
    ELSE IF names \subseteq schemaSet \cup reqPredSet THEN NoErr
    ELSE "ErrNoMatchingPredicate"

(***************************************************************************)
(* The node runs in group 1: proposeOrSend proposes the partition of group *)
(* 1 here and sends the one of group 2 to the leader of that group.        *)
(***************************************************************************)
ServesGroup(gid) == gid = 1

\* the start timestamp of the transaction of the batch
StartTs == 5

\* the error of a cancelled context, ctx.Err()
Canceled == "context canceled"

\* Txn.FillContext: the conflict keys and the predicates of the partition
FillContext(tc, mu) ==
    [tc EXCEPT !.Keys = @ \o [i \in 1..Len(mu.Edges) |-> <<mu.Edges[i].Attr, mu.Edges[i].Entity>>],
               !.Preds = @ \o [i \in 1..Len(mu.Edges) |-> <<mu.GroupId, mu.Edges[i].Attr>>]]

\* lines 764-770 left out
isSentinelNever(gid) == FALSE

\* line 764
isSentinel(gid) == gid = 0

\* lines 939-944: the proposal is reached when WaitForTs returned no error
mayProposeAnyway(err) == TRUE

mayPropose(err) == err = NoErr

\* lines 783-786 left out
mergeNothing(tc, r) == tc

\* lines 783-786: the keys and the predicates of a res that has a context
merge(tc, r) ==
    IF r.ctx # Nil
    THEN [tc EXCEPT !.Keys = @ \o r.ctx[1].Keys, !.Preds = @ \o r.ctx[1].Preds]
    ELSE tc

\* line 41
errNonExistentTablet == "Requested predicate is not being served by any tablet"

(***************************************************************************)
(* One call of MutateOverNetwork(ctx, m) with its proposeOrSend            *)
(* goroutines.  The schema coordinator stands still.                       *)
(***************************************************************************)
CoordinatorIdle ==
    /\ durable = [p \in Preds |-> Plain(p)]
    /\ predicate = durable
    /\ mutSchema = [p \in Preds |-> ZeroSchema]
    /\ hasData = [p \in Preds |-> TRUE]
    /\ opIndexing = 0
    /\ closerDone = [c \in Calls |-> 0]
    /\ fatal = FALSE
    /\ lastUndo = NoUndo
    /\ ret = NoReturn
    /\ pc = [c \in Calls |-> "idle"]
    /\ updates = [c \in Calls |-> 0]
    /\ visited = [c \in Calls |-> {}]
    /\ synced = [c \in Calls |-> {}]
    /\ maxAtATime = [c \in Calls |-> 0]
    /\ closer = [c \in Calls |-> 0]
    /\ done = [c \in Calls |-> 0]
    /\ wg = [c \in Calls |-> 0]
    /\ throttle = [c \in Calls |-> 0]
    /\ rebuild = [c \in Calls |-> NoRebuild]
    /\ g = [c \in Calls |-> [p \in Preds |-> NoGoroutine]]

Edge(attr, entity) == [Attr |-> attr, Entity |-> entity]

NetEdges ==
    {<<>>,
     <<Edge("name", 1)>>,
     <<Edge("name", 1), Edge("age", 2)>>,
     <<Edge("name", 1), Edge("orphan", 2)>>,
     <<Edge("age", 1), Edge("name", 2), Edge("orphan", 3)>>,
     <<Edge("unknown", 1)>>}

NetSchema == {<<>>, <<Plain("ghost")>>}

NetTypes ==
    {<<>>,
     <<TypeUpdate("Person", <<Field("name")>>)>>,
     <<TypeUpdate("Person", <<Field("name"), Field("~age")>>)>>,
     <<TypeUpdate("Person", <<Field("ghost")>>)>>,
     <<TypeUpdate("", <<Field("name")>>)>>,
     <<TypeUpdate("Person", <<[Field("name") EXCEPT !.Directive = "INDEX"]>>)>>}

NetBatches ==
    {[Edges |-> ed, Schema |-> sc, Types |-> ty, DropOp |-> dr, DropValue |-> "",
      Metadata |-> "md", StartTs |-> StartTs] :
        ed \in NetEdges, sc \in NetSchema, ty \in NetTypes, dr \in {0, 1}}

InitNet ==
    /\ CoordinatorIdle
    /\ FnIdle
    /\ m \in NetBatches
    /\ mutationMap = <<>>
    /\ undispatched = {}
    /\ shard = [gid \in Groups |-> NoCall]
    /\ resCh = <<>>
    /\ received = 0
    /\ out = NoOut
    /\ tctx = NoTxnContext
    /\ e = NoErr
    /\ mpc = "start"
    /\ ctxDone = FALSE

NetFrame == UNCHANGED <<schemaVars, hasData, lastUndo, coordVars, fnVars>>

\* return tctx, err
Return(tc, err) == mpc' = "done" /\ out' = [tctx |-> tc, err |-> err]

(***************************************************************************)
(* Lines 753-762: verifyTypes, populateMutationMap and the channel.        *)
(***************************************************************************)
Begin ==
    /\ mpc = "start"
    /\ \E lookupErr \in {NoErr, "ErrLookup"} :
         LET tc == [NoTxnContext EXCEPT !.StartTs = m.StartTs]
             verr == verifyTypes(m, lookupErr)
             pm == populateMutationMap(m)
         IN
         /\ tctx' = tc
         /\ IF verr # NoErr
            THEN Return(tc, verr) /\ UNCHANGED <<mutationMap, undispatched>>
            ELSE IF pm.err # NoErr
            THEN Return(tc, pm.err) /\ UNCHANGED <<mutationMap, undispatched>>
            ELSE /\ mutationMap' = pm.mm
                 /\ undispatched' = DOMAIN pm.mm
                 /\ mpc' = IF DOMAIN pm.mm = {} THEN "collect" ELSE "dispatch"
                 /\ UNCHANGED out
    /\ UNCHANGED <<m, shard, resCh, received, e, ctxDone>>
    /\ NetFrame

(***************************************************************************)
(* Lines 763-773, one iteration of the loop over the map, whose order is   *)
(* any.                                                                    *)
(***************************************************************************)
Dispatch(gid) ==
    /\ mpc = "dispatch"
    /\ gid \in undispatched
    /\ IF isSentinel(gid)
       THEN /\ Return(tctx, errNonExistentTablet)
            /\ UNCHANGED <<mutationMap, undispatched, shard>>
       ELSE /\ mutationMap' = [mutationMap EXCEPT ![gid].StartTs = m.StartTs]
            /\ undispatched' = undispatched \ {gid}
            /\ shard' = [shard EXCEPT ![gid].st = "called"]
            /\ mpc' = IF undispatched' = {} THEN "collect" ELSE "dispatch"
            /\ UNCHANGED out
    /\ UNCHANGED <<m, resCh, received, tctx, e, ctxDone>>
    /\ NetFrame

SendTwice(gid, sh, err, tc) ==
    LET r == [err |-> err, ctx |-> tc, from |-> gid] IN
    /\ resCh' = Append(Append(resCh, r), r)
    /\ shard' = [shard EXCEPT ![gid] = [sh EXCEPT !.st = "sent", !.res = r]]

\* chr <- res, the last statement of proposeOrSend; the channel has room for all
Send(gid, sh, err, tc) ==
    LET r == [err |-> err, ctx |-> tc, from |-> gid] IN
    /\ resCh' = Append(resCh, r)
    /\ shard' = [shard EXCEPT ![gid] = [sh EXCEPT !.st = "sent", !.res = r]]

GoFrame == UNCHANGED <<m, mutationMap, undispatched, received, tctx, e, mpc, ctxDone, out>>

(***************************************************************************)
(* proposeOrSend, lines 646-662, and for the group served here the check   *)
(* of lines 926-932, which can fail when the partition has edges.          *)
(***************************************************************************)
ProposeOrSend(gid) ==
    /\ shard[gid].st = "called"
    /\ IF ServesGroup(gid)
       THEN \E strictErr \in {NoErr, "ErrTypeOf"} :
              IF strictErr # NoErr /\ Len(mutationMap[gid].Edges) > 0
              THEN Send(gid, shard[gid], strictErr, Ptr(NoTxnContext))
              ELSE /\ shard' = [shard EXCEPT ![gid].st = "waitForTs"]
                   /\ UNCHANGED resCh
       ELSE \E leader \in BOOLEAN :
              IF ~leader
              THEN Send(gid, shard[gid], "ErrNoConnection", Nil)
              ELSE /\ shard' = [shard EXCEPT ![gid].st = "remote", ![gid].rpc = "running"]
                   /\ UNCHANGED resCh
    /\ GoFrame
    /\ NetFrame

\* the errors a call that takes the context can return: the cancellation once it happened
CtxErrors == IF ctxDone THEN {Canceled} ELSE {}

(***************************************************************************)
(* Lines 939-941: posting.Oracle().WaitForTs returns.                      *)
(***************************************************************************)
WaitForTs(gid) ==
    /\ shard[gid].st = "waitForTs"
    /\ \E err \in {NoErr} \cup CtxErrors :
         IF mayPropose(err)
         THEN /\ shard' = [shard EXCEPT ![gid].st = "propose", ![gid].waitForTs = err]
              /\ UNCHANGED resCh
         ELSE Send(gid, [shard[gid] EXCEPT !.waitForTs = err], err, Ptr(NoTxnContext))
    /\ GoFrame
    /\ NetFrame

(***************************************************************************)
(* Lines 943-947 and 650: node.proposeAndWait returns, fillTxnContext      *)
(* fills the context when the oracle has the transaction, and the res is   *)
(* sent.                                                                   *)
(***************************************************************************)
Propose(gid) ==
    /\ shard[gid].st = "propose"
    /\ \E err \in {NoErr, "ErrProposal"} \cup CtxErrors, txn \in BOOLEAN :
         Send(gid,
              [shard[gid] EXCEPT !.proposed = TRUE, !.filled = txn],
              err,
              Ptr(IF txn THEN FillContext(NoTxnContext, mutationMap[gid]) ELSE NoTxnContext))
    /\ GoFrame
    /\ NetFrame

(***************************************************************************)
(* Lines 667-670, the goroutine of the call to the leader: c.Mutate        *)
(* returns the context of the leader or an error, which is the             *)
(* cancellation once the context is cancelled, and the error is sent on    *)
(* ch, the channel of capacity 1 made at line 666.                         *)
(***************************************************************************)
RpcReturns(gid) ==
    /\ shard[gid].rpc = "running"
    /\ \E reply \in {[err |-> NoErr, tc |-> Ptr(FillContext(NoTxnContext, mutationMap[gid]))],
                     [err |-> "ErrRemote", tc |-> Nil]}
                    \cup {[err |-> er, tc |-> Nil] : er \in CtxErrors} :
         shard' = [shard EXCEPT ![gid].rpc = "done", ![gid].ch = Append(@, reply)]
    /\ UNCHANGED resCh
    /\ GoFrame
    /\ NetFrame

(***************************************************************************)
(* Lines 675-679, the select takes the error from ch: the reply of the     *)
(* leader of the group is the res.                                         *)
(***************************************************************************)
RemoteAnswer(gid) ==
    /\ shard[gid].st = "remote"
    /\ shard[gid].ch # <<>>
    /\ LET reply == Head(shard[gid].ch) IN
       Send(gid, [shard[gid] EXCEPT !.ch = Tail(@)], reply.err, reply.tc)
    /\ GoFrame
    /\ NetFrame

(***************************************************************************)
(* Lines 671-674, the cancellation is taken.                               *)
(***************************************************************************)
RemoteCancelled(gid) ==
    /\ shard[gid].st = "remote"
    /\ ctxDone
    /\ Send(gid, shard[gid], Canceled, Nil)
    /\ GoFrame
    /\ NetFrame

\* the caller cancels the context
Cancel ==
    /\ mpc \in {"dispatch", "collect"}
    /\ ~ctxDone
    /\ ctxDone' = TRUE
    /\ UNCHANGED <<m, mutationMap, undispatched, shard, resCh, received, tctx, e, mpc, out>>
    /\ NetFrame

(***************************************************************************)
(* Lines 778-787, one iteration.                                           *)
(***************************************************************************)
Collect ==
    /\ mpc = "collect"
    /\ received < Cardinality(DOMAIN mutationMap)
    /\ resCh # <<>>
    /\ LET r == Head(resCh) IN
         /\ resCh' = Tail(resCh)
         /\ received' = received + 1
         /\ e' = IF r.err # NoErr THEN r.err ELSE e
         /\ tctx' = merge(tctx, r)
         /\ shard' = [shard EXCEPT ![r.from].st = "received"]
    /\ UNCHANGED <<m, mutationMap, undispatched, mpc, ctxDone, out>>
    /\ NetFrame

\* lines 788-789
Finish ==
    /\ mpc = "collect"
    /\ received = Cardinality(DOMAIN mutationMap)
    /\ Return(tctx, e)
    /\ UNCHANGED <<m, mutationMap, undispatched, shard, resCh, received, tctx, e, ctxDone>>
    /\ NetFrame

NextNet ==
    \/ Begin
    \/ \E gid \in DOMAIN mutationMap : Dispatch(gid)
    \/ \E gid \in Groups :
         \/ ProposeOrSend(gid)
         \/ WaitForTs(gid)
         \/ Propose(gid)
         \/ RpcReturns(gid)
         \/ RemoteAnswer(gid)
         \/ RemoteCancelled(gid)
    \/ Cancel
    \/ Collect
    \/ Finish

SpecNet == InitNet /\ [][NextNet]_vars

(***************************************************************************)
(* SpecNetFair: SpecNet with the steps scheduled fairly.  The goroutines   *)
(* that can run are run, and WaitForTs, the proposal and the call to the   *)
(* leader return.                                                          *)
(***************************************************************************)
SpecNetFair == SpecNet /\ WF_vars(NextNet)

(***************************************************************************)
(* CommitOverNetwork(ctx, tc), lines 881-922: the commit timestamp and the *)
(* error.  leader is whether groups().Leader(0) is there and reply is what *)
(* CommitOrAbort of the zero leader answers, with its error.               *)
(***************************************************************************)
CommitOverNetworkAbortedOnly(tc, leader, reply) ==
    IF ~leader THEN [ts |-> 0, err |-> "ErrNoConnection"]
    ELSE IF reply.err # NoErr THEN [ts |-> 0, err |-> reply.err]
    ELSE IF reply.Aborted THEN [ts |-> 0, err |-> "ErrAborted"]
    ELSE [ts |-> reply.CommitTs, err |-> NoErr]

CommitOverNetwork(tc, leader, reply) ==
    IF ~leader THEN [ts |-> 0, err |-> "ErrNoConnection"]
    ELSE IF reply.err # NoErr THEN [ts |-> 0, err |-> reply.err]
    ELSE IF reply.Aborted \/ reply.CommitTs = 0 THEN [ts |-> 0, err |-> "ErrAborted"]
    ELSE [ts |-> reply.CommitTs, err |-> NoErr]

(***************************************************************************)
(* The bytes of an edge value.  Text(s) is the text s as it comes from the *)
(* client; Int64(n) and VFloat(s) are the binary encodings of the integer  *)
(* n and of the vector written s.                                          *)
(***************************************************************************)
Text(s) == [enc |-> "utf8", s |-> s, n |-> 0]

Int64(n) == [enc |-> "int64", s |-> "", n |-> n]

VFloat(s) == [enc |-> "vfloat", s |-> s, n |-> 0]

\* x.Star
Star == "_STAR_ALL"

\* isStarAll, lines 48-50
isStarAll(v) == v = Text(Star)

\* lines 52-54 left out
isDeletePredicateEdgeNever(edge) == FALSE

\* isDeletePredicateEdge, lines 52-54
isDeletePredicateEdge(edge) == edge.Entity = 0 /\ isStarAll(edge.Value)

(***************************************************************************)
(* Lines 87-104 of runMutation: the retrieval of the posting list chosen   *)
(* for the edge, given the schema su of its predicate.                     *)
(***************************************************************************)
getFn(edge, su) ==
    IF edge.Lang = "" /\ ~su.List THEN "GetScalarList"
    ELSE IF edge.Lang # "" \/ su.Count THEN "Get"
    ELSE IF edge.Op = "DEL" THEN "Get"
    ELSE "GetFromDelta"

(***************************************************************************)
(* runMutation(ctx, edge, txn), lines 57-118, up to the retrieval: the     *)
(* error, and the retrieval used when there is none.  su and ok are what   *)
(* schema.State().Get answers for edge.Attr, and convErr is the error of   *)
(* ValidateAndConvert.                                                     *)
(***************************************************************************)
runMutation(edge, su, ok, convErr) ==
    IF edge.Op # "DEL" /\ ~ok THEN [err |-> "ErrNoSchema", getFn |-> "none"]
    ELSE IF isDeletePredicateEdge(edge) THEN [err |-> "ErrNeverReach", getFn |-> "none"]
    ELSE IF convErr # NoErr THEN [err |-> convErr, getFn |-> "none"]
    ELSE [err |-> NoErr, getFn |-> getFn(edge, su)]

(***************************************************************************)
(* The states of a rebuild, section 4.4 of the specification, read off the *)
(* state of call c for predicate p.                                        *)
(***************************************************************************)
\* lines 253-267: the caller is in the setup of an update of p that needs a rebuild
InSetup(c, p) ==
    /\ pc[c] = "setup"
    /\ rebuild[c].shouldRebuild
    /\ rebuild[c].CurrentSchema.Predicate = p

\* lines 205-207: the goroutine is launched and BuildIndexes has not begun
Pending(c, p) == InSetup(c, p) \/ g[c][p].st = "wgWait"

\* line 209: the goroutine executes BuildIndexes
Building(c, p) == g[c][p].st = "building"

InFlight(c, p) == Pending(c, p) \/ Building(c, p)

\* lines 209-213 are over and the deferred stopIndexing of line 199 is left
Ended(c, p) == g[c][p].st \in {"stopCheck", "stopCas"}

C3_SetupBeforeBuildIndexes ==
    \A c \in Calls :
        /\ pc[c] \in {"wait", "loop", "setup", "retStop", "retCas"} =>
             \A p \in Preds : g[c][p].st \in {"none", "wgWait"}
        /\ (\E p \in Preds : Building(c, p) \/ Ended(c, p)) => pc[c] = "returned"

\* the call is in the setup of one predicate while the goroutine of another waits
C3_Witness ==
    \E c \in Calls : \E p, q \in Preds :
        p # q /\ pc[c] = "setup" /\ rebuild[c].CurrentSchema.Predicate = q
        /\ g[c][p].st = "wgWait"

(***************************************************************************)
(* C4.  While the rebuild of a predicate is pending (setup, or the         *)
(* goroutine waiting) or running, the memory holds the new schema, as      *)
(* query schema and as mutation schema, and the store still holds the      *)
(* schema record it held when the update began, which is not the new one.  *)
(* (Once the process has ended, fatal, there is no memory to speak of.)    *)
(***************************************************************************)
C4_DurableAfterBuildIndexes ==
    \A c \in Calls : \A p \in Preds :
        /\ InSetup(c, p) =>
             /\ durable[p] = rebuild[c].before
             /\ durable[p] # rebuild[c].CurrentSchema
             /\ ~fatal =>
                  /\ predicate[p] = GetQuerySchema(rebuild[c].OldSchema,
                                                   rebuild[c].CurrentSchema)
                  /\ mutSchema[p] = rebuild[c].CurrentSchema
        /\ g[c][p].st \in {"wgWait", "building"} =>
             /\ durable[p] = g[c][p].before
             /\ durable[p] # g[c][p].update
             /\ ~fatal =>
                  /\ predicate[p] = g[c][p].update
                  /\ mutSchema[p] = g[c][p].update

\* BuildIndexes runs, the memory holds the indexed schema and the store the plain one
C4_Witness ==
    \E c \in Calls : \E p \in Preds :
        Building(c, p) /\ predicate[p] = Indexed(p) /\ durable[p] = Plain(p)

(***************************************************************************)
(* C5.  The step in which a rebuild fails and is rolled back, in setup or  *)
(* in the goroutine, leaves the memory and the store with the schema the   *)
(* store held when the update began and no pending mutation schema; a      *)
(* rebuild that does not end committed leaves the schema record as it was. *)
(***************************************************************************)
C5_RollbackRestores ==
    [][\A c \in Calls : \A p \in Preds :
        /\ (Building(c, p) /\ "RolledBack" \in g'[c][p].out) =>
             /\ predicate'[p] = g[c][p].before
             /\ durable'[p] = g[c][p].before
             /\ mutSchema'[p] = ZeroSchema
        /\ (Building(c, p) /\ g'[c][p].out # {"Committed"}) =>
             durable'[p] = g[c][p].before
        /\ (InSetup(c, p) /\ pc'[c] # "setup" /\ ret'.c = c /\ ret'.err = "ErrSetup") =>
             /\ predicate'[p] = rebuild[c].before
             /\ durable'[p] = rebuild[c].before
             /\ mutSchema'[p] = ZeroSchema
        /\ (InSetup(c, p) /\ fatal') => durable'[p] = rebuild[c].before
      ]_vars

\* a background rebuild was rolled back: memory and store hold the plain schema again
C5_Witness ==
    \E c \in Calls : \E p \in Preds :
        /\ Ended(c, p) /\ g[c][p].out = {"RolledBack"}
        /\ predicate[p] = Plain(p) /\ durable[p] = Plain(p)
        /\ mutSchema[p] = ZeroSchema

(***************************************************************************)
(* C6.  When runSchemaMutation has returned nil, every update it processed *)
(* with no rebuild needed is in the store, the memory holds the same       *)
(* schema, the pending mutation schema is removed and the call launched no *)
(* goroutine for the predicate.                                            *)
(***************************************************************************)
C6_NoRebuildCommitsSynchronously ==
    \A c \in Calls :
        (ret.c = c /\ ret.err = NoErr) =>
            \A su \in ret.synced :
                /\ durable[su.Predicate] = su
                /\ predicate[su.Predicate] = su
                /\ mutSchema[su.Predicate] = ZeroSchema
                /\ g[c][su.Predicate].st = "none"

\* a batch of two updates that needed no rebuild has returned nil
C6_Witness ==
    /\ ret.c # 0 /\ ret.err = NoErr
    /\ Cardinality(ret.synced) = 2
    /\ \E su \in ret.synced : su.Upsert

(***************************************************************************)
(* C7.  closer.Done() is called at most once on the closer of a call, and  *)
(* exactly once by the time the call and its goroutines are over: as long  *)
(* as the call holds the opIndexing task, Done was not called and the call *)
(* is not over, and a call with a closer that does not hold the task any   *)
(* more has called Done once.                                              *)
(***************************************************************************)
C7_CloserDoneOnce ==
    \A c \in Calls :
        /\ closerDone[c] <= 1
        /\ opIndexing = c => closerDone[c] = 0 /\ ~Over(c, pc, g)
        /\ (closer[c] = c /\ opIndexing # c) => closerDone[c] = 1

\* two goroutines of a call have both observed that no indexing is in progress
C7_Witness ==
    \E c \in Calls : \E p, q \in Preds :
        p # q /\ g[c][p].st = "stopCas" /\ g[c][q].st = "stopCas"

C9_AlwaysAnOutcome ==
    \A c \in Calls : \A p \in Preds :
        Building(c, p) ~> (Ended(c, p) /\ g[c][p].out \in {{"Committed"}, {"RolledBack"}})

\* the state of the rebuild of p by call c in the state with these pc, rebuild and g
Phase(pcs, rbs, gs, c, p) ==
    IF gs[c][p].st = "building" THEN "Rebuilding"
    ELSE IF gs[c][p].st = "wgWait" THEN "RebuildPending"
    ELSE IF pcs[c] = "setup" /\ rbs[c].shouldRebuild /\ rbs[c].CurrentSchema.Predicate = p
    THEN "RebuildPending"
    ELSE IF gs[c][p].st \in {"stopCheck", "stopCas"}
    THEN (IF gs[c][p].out = {"Committed"} THEN "Committed"
          ELSE IF gs[c][p].out = {"RolledBack"} THEN "RolledBack"
          ELSE "Unknown")
    ELSE "Idle"

(***************************************************************************)
(* C9, amended.  A rebuild goes Idle, RebuildPending, Rebuilding and ends  *)
(* in exactly one of Committed and RolledBack, with two more ways out: a   *)
(* failed setup rolls back from RebuildPending, and the process ends       *)
(* (fatal) when the reload of a rollback fails on all its attempts.  With  *)
(* fair scheduling the rebuilds in flight are all over at some later time, *)
(* unless the process has ended: none stays pending or running.            *)
(***************************************************************************)
C9_RebuildLifecycle ==
    /\ [][\A c \in Calls : \A p \in Preds :
            LET from == Phase(pc, rebuild, g, c, p)
                to == Phase(pc', rebuild', g', c, p)
            IN
            /\ to # "Unknown"
            /\ from # to =>
                 \/ from = "Idle" /\ to = "RebuildPending"
                 \/ from = "RebuildPending" /\ to = "Rebuilding"
                 \/ from = "Rebuilding" /\ to \in {"Committed", "RolledBack"}
                 \/ from \in {"Committed", "RolledBack"} /\ to = "Idle"
                 \/ /\ from = "RebuildPending" /\ to = "Idle"
                    /\ ret'.c = c /\ ret'.err = "ErrSetup"
                    /\ predicate'[p] = durable'[p]
            /\ (from = "Rebuilding" /\ to = "Committed") =>
                 (predicate'[p] = durable'[p] /\ durable'[p] = g'[c][p].update)
            /\ (from = "Rebuilding" /\ to = "RolledBack") =>
                 (predicate'[p] = durable'[p] /\ durable'[p] # g'[c][p].update)
       ]_vars
    /\ (\E c \in Calls : \E p \in Preds : InFlight(c, p))
         ~> (fatal \/ \A c \in Calls : \A p \in Preds : ~InFlight(c, p))

\* a rebuild has ended committed
C9_Witness ==
    \E c \in Calls : \E p \in Preds :
        /\ Ended(c, p) /\ g[c][p].out = {"Committed"}
        /\ durable[p] = Indexed(p)

(***************************************************************************)
(* C10.  undoSchemaUpdate makes at most MaxRetries attempts of             *)
(* schema.Load.  When one of them succeeds, the memory holds the schema of *)
(* the store for the predicate and the process goes on; when none does,    *)
(* all MaxRetries attempts were made and the process has ended.            *)
(***************************************************************************)
C10_UndoBoundedOrFatal ==
    lastUndo.p # "" =>
        /\ lastUndo.attempts \in 1..MaxRetries
        /\ lastUndo.firstOk <= MaxRetries =>
             /\ ~fatal
             /\ lastUndo.attempts = lastUndo.firstOk
             /\ predicate[lastUndo.p] = durable[lastUndo.p]
             /\ mutSchema[lastUndo.p] = ZeroSchema
        /\ lastUndo.firstOk > MaxRetries =>
             /\ fatal
             /\ lastUndo.attempts = MaxRetries

\* schema.Load failed on all the attempts and the process has ended
C10_Witness == fatal /\ lastUndo.attempts = MaxRetries /\ lastUndo.firstOk > MaxRetries

\* the errors checkSchema returns
CheckSchemaErrors ==
    {"ErrNoPredicate", "ErrInternalName", "ErrTokenizerMissing", "ErrDirectiveNotIndex",
     "ErrIndexOnUid", "ErrReverseOnScalar", "ErrUpsertNoIndex", "ErrDropUpsert",
     "ErrDropIndex", "ErrIndexMissing", "ErrUniqueType", "ErrPasswordChange",
     "ErrListChange", "ErrUidScalarChange"}

(***************************************************************************)
(* C11, as claimed: when runSchemaMutation has returned an error of        *)
(* checkSchema, no schema record of an update of the batch is in the store *)
(* and the call has run no setup that dropped index entries (it launched   *)
(* no rebuild).                                                            *)
(***************************************************************************)
C11_CheckErrorBeforeAnyWrite ==
    \A c \in Calls :
        (ret.c = c /\ ret.err \in CheckSchemaErrors) =>
            /\ \A su \in ret.synced : durable[su.Predicate] # su
            /\ \A p \in Preds : g[c][p].st = "none"

(***************************************************************************)
(* The functions applied on their own: populateMutationMap,                *)
(* CommitOverNetwork and runMutation up to its retrieval, each on an       *)
(* argument drawn from a bounded set.                                      *)
(***************************************************************************)
MaxEntries == 2

MaxCommitTs == 2

\* the sequences over S of at most n elements
SeqsUpTo(S, n) == UNION {[1..k -> S] : k \in 0..n}

FnBatches ==
    {[Edges |-> [i \in 1..Len(ed) |-> Edge(ed[i], i)],
      Schema |-> [i \in 1..Len(sc) |-> Plain(sc[i])],
      Types |-> ty, DropOp |-> dr, DropValue |-> IF dr > 0 THEN "all" ELSE "",
      Metadata |-> "md", StartTs |-> StartTs] :
        ed \in SeqsUpTo(Attrs, MaxEntries), sc \in SeqsUpTo(Attrs, MaxEntries),
        ty \in {<<>>, <<TypeUpdate("Person", <<Field("name")>>)>>}, dr \in {0, 1}}

CommitArgs ==
    [fn : {"CommitOverNetwork"}, tc : [Aborted : BOOLEAN], leader : BOOLEAN,
     reply : [err : {NoErr, "ErrTransport"}, Aborted : BOOLEAN, CommitTs : 0..MaxCommitTs]]

RunMutationArgs ==
    {a \in [fn : {"runMutation"},
            edge : [Attr : {"name"}, Entity : {0, 1}, Value : {Text(Star), Text("7")},
                    Op : {"SET", "DEL", "OVR"},
                    Lang : {"", "en"}],
            su : [List : BOOLEAN, Count : BOOLEAN], ok : BOOLEAN,
            convErr : {NoErr, "ErrConvert"}] :
        \* without a schema, line 62 hands out the zero value
        a.ok \/ (~a.su.List /\ ~a.su.Count)}

InitFn ==
    /\ CoordinatorIdle
    /\ NetIdle
    /\ arg \in [fn : {"populateMutationMap"}, src : FnBatches] \cup CommitArgs \cup RunMutationArgs
    /\ result = [fn |-> "none"]

FnFrame == UNCHANGED <<schemaVars, hasData, lastUndo, coordVars, netVars, arg>>

ApplyPopulateMutationMap ==
    /\ result.fn = "none"
    /\ arg.fn = "populateMutationMap"
    /\ LET r == populateMutationMap(arg.src) IN
         result' = [fn |-> arg.fn, mm |-> r.mm, err |-> r.err]
    /\ FnFrame

ApplyCommitOverNetwork ==
    /\ result.fn = "none"
    /\ arg.fn = "CommitOverNetwork"
    /\ LET r == CommitOverNetwork(arg.tc, arg.leader, arg.reply) IN
         result' = [fn |-> arg.fn, ts |-> r.ts, err |-> r.err]
    /\ FnFrame

ApplyRunMutation ==
    /\ result.fn = "none"
    /\ arg.fn = "runMutation"
    /\ LET r == runMutation(arg.edge, arg.su, arg.ok, arg.convErr) IN
         result' = [fn |-> arg.fn, getFn |-> r.getFn, err |-> r.err]
    /\ FnFrame

NextFn == ApplyPopulateMutationMap \/ ApplyCommitOverNetwork \/ ApplyRunMutation

SpecFn == InitFn /\ [][NextFn]_vars

(***************************************************************************)
(* MutateOverNetwork returned / a goroutine of proposeOrSend was launched  *)
(* for the group / its res was taken by the loop of line 778.              *)
(***************************************************************************)
Returned == mpc = "done"

Dispatched(gid) == shard[gid].st # "none"

Answered(gid) == shard[gid].st \in {"sent", "received"}

Received(gid) == shard[gid].st = "received"

(***************************************************************************)
(* C12: when the map of partitions has a partition for the group id 0,     *)
(* MutateOverNetwork returns errNonExistentTablet, whatever the other      *)
(* partitions are and in whatever order the map is iterated; it never      *)
(* returns a nil error then.                                               *)
(***************************************************************************)
C12_SentinelFailsTheBatch ==
    (Returned /\ 0 \in DOMAIN mutationMap) => out.err = errNonExistentTablet

\* the call returned on the sentinel after the partition of a group was dispatched
C12_Witness ==
    /\ Returned
    /\ 0 \in DOMAIN mutationMap
    /\ \E gid \in KnownGroups : Dispatched(gid)
    /\ out.err = errNonExistentTablet

(***************************************************************************)
(* C13, as claimed: with a context that is not cancelled, MutateOverNetwork*)
(* has returned only when the res of every group it launched a             *)
(* proposeOrSend for was taken from the channel.                           *)
(***************************************************************************)
C13_ReturnsAfterEveryResult ==
    (Returned /\ ~ctxDone) => \A gid \in Groups : Dispatched(gid) => Received(gid)

\* the elements of a sequence
Range(seq) == {seq[i] : i \in 1..Len(seq)}

\* the keys and the predicates of the res of the groups of gs that carry a context
KeysOf(gs) == UNION {Range(shard[gid].res.ctx[1].Keys) : gid \in {x \in gs : shard[x].res.ctx # Nil}}

PredsOf(gs) == UNION {Range(shard[gid].res.ctx[1].Preds) : gid \in {x \in gs : shard[x].res.ctx # Nil}}

\* a call gave up on the cancelled context and reported the cancellation
Abandoned(gid) == Answered(gid) /\ shard[gid].res.err = Canceled

Failed == {gid \in Groups : Answered(gid) /\ shard[gid].res.err # NoErr}

Succeeded == {gid \in Groups : Answered(gid) /\ shard[gid].res.err = NoErr}

(***************************************************************************)
(* C15, as claimed: when MutateOverNetwork has returned and a shard has    *)
(* answered with an error, the error returned is one that a shard          *)
(* reported, and the context returned has the keys and the predicates of   *)
(* every shard that answered without error, in whatever order the answers  *)
(* arrived.                                                                *)
(***************************************************************************)
C15_ErrorKeepsSuccessfulKeys ==
    (Returned /\ Failed # {}) =>
        /\ out.err \in {shard[gid].res.err : gid \in Failed}
        /\ KeysOf(Succeeded) \subseteq Range(out.tctx.Keys)
        /\ PredsOf(Succeeded) \subseteq Range(out.tctx.Preds)

\* the same when no partition has the group id 0
ErrorKeepsKeysWithoutSentinel ==
    (Returned /\ Failed # {} /\ 0 \notin DOMAIN mutationMap) =>
        /\ out.err \in {shard[gid].res.err : gid \in Failed}
        /\ KeysOf(Succeeded) \subseteq Range(out.tctx.Keys)
        /\ PredsOf(Succeeded) \subseteq Range(out.tctx.Preds)

(***************************************************************************)
(* C16: a proposal is submitted to the node only when WaitForTs has        *)
(* returned without error; when WaitForTs returned an error, proposeAndWait*)
(* has returned that error, nothing was proposed and the transaction       *)
(* context was not filled: the res carries that error and an empty context.*)
(***************************************************************************)
C16_ProposalAfterWaitForTs ==
    \A gid \in Groups :
        /\ shard[gid].proposed => shard[gid].waitForTs = NoErr
        /\ shard[gid].waitForTs \notin {"none", NoErr} =>
             /\ ~shard[gid].proposed
             /\ ~shard[gid].filled
             /\ Answered(gid)
             /\ shard[gid].res.err = shard[gid].waitForTs
             /\ shard[gid].res.ctx = Ptr(NoTxnContext)

\* WaitForTs failed on the cancelled context for a partition that has edges
C16_Witness ==
    /\ shard[1].waitForTs = Canceled
    /\ Len(mutationMap[1].Edges) > 0
    /\ shard[1].res.err = Canceled
    /\ ~shard[1].proposed

\* the errors verifyTypes returns
VerifyTypesErrors ==
    {"ErrTypeName", "ErrFieldName", "ErrObjectType", "ErrFieldDirective", "ErrFieldTokenizer",
     "ErrRetrievePredicate", "ErrNoMatchingPredicate"}

\* the names of the fields of the type updates of the batch
FieldsOf(mu) ==
    UNION {{mu.Types[i].Fields[j].Predicate : j \in 1..Len(mu.Types[i].Fields)} :
             i \in 1..Len(mu.Types)}

\* the field resolves: without its leading ~ it has a schema update in the batch or a schema
Resolves(mu, name) ==
    LET bare == IF name = "~age" THEN "age" ELSE name IN
    \/ \E i \in 1..Len(mu.Schema) : mu.Schema[i].Predicate = bare
    \/ bare \in ClusterSchema

\* every type update has a name and passes typeSanityCheck
WellFormedTypes(mu) ==
    \A i \in 1..Len(mu.Types) : mu.Types[i].TypeName # "" /\ typeSanityCheck(mu.Types[i]) = NoErr

(***************************************************************************)
(* C17, as claimed: when a field of a type update does not resolve,        *)
(* MutateOverNetwork returns an error of verifyTypes and no proposeOrSend  *)
(* was launched; when every field resolves, it does not return an error of *)
(* verifyTypes.                                                            *)
(***************************************************************************)
C17_VerifyTypesResolvedOnly ==
    Returned =>
        /\ (\E name \in FieldsOf(m) : ~Resolves(m, name)) =>
             /\ out.err \in VerifyTypesErrors
             /\ \A gid \in Groups : ~Dispatched(gid)
        /\ (\A name \in FieldsOf(m) : Resolves(m, name)) => out.err \notin VerifyTypesErrors

(***************************************************************************)
(* C17, amended: when a field of a type update does not resolve,           *)
(* MutateOverNetwork returns an error of verifyTypes, before the batch is  *)
(* partitioned and with no proposeOrSend launched; when every field        *)
(* resolves and every type update has a name and passes the sanity check,  *)
(* verifyTypes fails only when the schema lookup itself fails.             *)
(***************************************************************************)
C17_VerifyTypesBeforePartitioning ==
    /\ Returned =>
        /\ (\E name \in FieldsOf(m) : ~Resolves(m, name)) => out.err \in VerifyTypesErrors
        /\ out.err \in VerifyTypesErrors =>
             /\ mutationMap = <<>>
             /\ \A gid \in Groups : ~Dispatched(gid)
        /\ ((\A name \in FieldsOf(m) : Resolves(m, name)) /\ WellFormedTypes(m)) =>
             out.err \notin (VerifyTypesErrors \ {"ErrRetrievePredicate"})
    /\ ((\A name \in FieldsOf(m) : Resolves(m, name)) /\ WellFormedTypes(m)) =>
         /\ verifyTypes(m, NoErr) = NoErr
         /\ verifyTypes(m, "ErrLookup") = "ErrRetrievePredicate"

\* a batch whose type names the field ghost, which has no schema, was refused
C17_Witness ==
    /\ Returned
    /\ \E name \in FieldsOf(m) : ~Resolves(m, name)
    /\ WellFormedTypes(m)
    /\ out.err = "ErrNoMatchingPredicate"
    /\ Len(m.Edges) > 0

\* a batch whose reverse field ~age resolves through age went on to its shards
C17_WitnessResolved ==
    /\ Returned
    /\ "~age" \in FieldsOf(m)
    /\ out.err = NoErr
    /\ \E gid \in Groups : Received(gid)

\* the edges of the batch that belong to the group gid, in their order
OwnedEdges(src, gid) ==
    LET own(edge) == BelongsTo(edge.Attr).gid = gid IN SelectSeq(src.Edges, own)

\* the schema updates of the batch that belong to the group gid, in their order
OwnedSchema(src, gid) ==
    LET own(su) == BelongsTo(su.Predicate).gid = gid IN SelectSeq(src.Schema, own)

(***************************************************************************)
(* C18: when populateMutationMap returns a map, the partition of every     *)
(* group id of the map has that GroupId, exactly the edges and the schema  *)
(* updates of the batch that belong to the group, in their order, and, for *)
(* a known group, the drop operation and the type updates of the batch;    *)
(* the group of every edge and schema update has a partition, and so has   *)
(* every known group when the batch has a drop operation or type updates.  *)
(***************************************************************************)
C18_PartitionByOwner ==
    (result.fn = "populateMutationMap" /\ result.err = NoErr) =>
        LET src == arg.src
            mm == result.mm
        IN
        /\ \A gid \in DOMAIN mm :
             /\ mm[gid].GroupId = gid
             /\ mm[gid].Edges = OwnedEdges(src, gid)
             /\ mm[gid].Schema = OwnedSchema(src, gid)
             /\ mm[gid].DropOp = IF gid \in KnownGroups THEN src.DropOp ELSE 0
             /\ mm[gid].DropValue = IF gid \in KnownGroups /\ src.DropOp > 0 THEN src.DropValue ELSE ""
             /\ mm[gid].Types = IF gid \in KnownGroups THEN src.Types ELSE <<>>
        /\ \A i \in 1..Len(src.Edges) : BelongsTo(src.Edges[i].Attr).gid \in DOMAIN mm
        /\ \A i \in 1..Len(src.Schema) : BelongsTo(src.Schema[i].Predicate).gid \in DOMAIN mm
        /\ (src.DropOp > 0 \/ Len(src.Types) > 0) => KnownGroups \subseteq DOMAIN mm

\* two edges of group 1 kept in their order, and group 2 has a partition for the drop only
C18_Witness ==
    /\ result.fn = "populateMutationMap"
    /\ result.err = NoErr
    /\ arg.src.DropOp > 0
    /\ Len(result.mm[1].Edges) = 2
    /\ result.mm[1].Edges[1].Attr # result.mm[1].Edges[2].Attr
    /\ result.mm[2].Edges = <<>>
    /\ result.mm[2].DropOp = arg.src.DropOp

(***************************************************************************)
(* C19: CommitOverNetwork returns ErrNoConnection when zero has no leader  *)
(* and the error of CommitOrAbort when it returns one, with timestamp 0;   *)
(* otherwise it returns (0, ErrAborted) exactly when the reply is aborted  *)
(* or has commit timestamp 0, and else the positive commit timestamp of    *)
(* the reply with no error.                                                *)
(***************************************************************************)
C19_CommitOrAborted ==
    result.fn = "CommitOverNetwork" =>
        LET aborted == arg.reply.Aborted \/ arg.reply.CommitTs = 0 IN
        /\ ~arg.leader => (result.ts = 0 /\ result.err = "ErrNoConnection")
        /\ (arg.leader /\ arg.reply.err # NoErr) => (result.ts = 0 /\ result.err = arg.reply.err)
        /\ (arg.leader /\ arg.reply.err = NoErr) =>
             /\ (result.ts = 0 /\ result.err = "ErrAborted") <=> aborted
             /\ ~aborted => (result.ts = arg.reply.CommitTs /\ result.ts > 0 /\ result.err = NoErr)
        /\ result.err = NoErr => result.ts > 0

\* the reply is not marked aborted and has the commit timestamp 0
C19_Witness ==
    /\ result.fn = "CommitOverNetwork"
    /\ arg.leader
    /\ arg.reply.err = NoErr
    /\ ~arg.reply.Aborted
    /\ arg.reply.CommitTs = 0
    /\ result.err = "ErrAborted"

(***************************************************************************)
(* C20, as claimed: when runMutation reaches the retrieval, an edge with a *)
(* language tag, or of a predicate with a count index, or with the         *)
(* operation DEL is retrieved with Get; GetScalarList and GetFromDelta     *)
(* are used only for edges with none of the three.                         *)
(***************************************************************************)
C20_FullRetrievalWhenNeeded ==
    (result.fn = "runMutation" /\ result.err = NoErr) =>
        LET needsList == arg.edge.Lang # "" \/ arg.su.Count \/ arg.edge.Op = "DEL" IN
        /\ needsList => result.getFn = "Get"
        /\ result.getFn \in {"GetScalarList", "GetFromDelta"} => ~needsList


(***************************************************************************)
(* ValidateAndConvert.  The values of the types package are modelled by    *)
(* what the conversions do on the values used here: the texts "7", "9" and *)
(* "[0.5]", the star, and the integers 7 and 9.                            *)
(***************************************************************************)
\* a types.Val after Convert: the Go value it holds
GoInt(n) == [kind |-> "int64", n |-> n, s |-> ""]

GoString(str) == [kind |-> "string", n |-> 0, s |-> str]

GoVector(str) == [kind |-> "[]float32", n |-> 0, s |-> str]

\* strconv.ParseInt on the texts used
ParseInt(str) ==
    CASE str = "7" -> [ok |-> TRUE, n |-> 7]
      [] str = "9" -> [ok |-> TRUE, n |-> 9]
      [] OTHER -> [ok |-> FALSE, n |-> 0]

\* strconv.FormatInt on the integers used
FormatInt(n) == CASE n = 7 -> "7" [] n = 9 -> "9" [] OTHER -> "?"

\* the text is a vector
ParseVector(str) == str = "[0.5]"

\* the error of types.Convert
ErrConvert == "ErrConvert"

\* what the bytes hold under the type id they come with
Decode(src) ==
    CASE src.Tid \in {"DEFAULT", "STRING"} /\ src.Value.enc = "utf8" ->
           [err |-> NoErr, val |-> GoString(src.Value.s)]
      [] src.Tid = "INT" /\ src.Value.enc = "int64" -> [err |-> NoErr, val |-> GoInt(src.Value.n)]
      [] src.Tid = "VFLOAT" /\ src.Value.enc = "vfloat" ->
           [err |-> NoErr, val |-> GoVector(src.Value.s)]
      [] OTHER -> [err |-> ErrConvert, val |-> GoString("")]

\* types.Convert(src, toID): the error and the converted value
Convert(src, toID) ==
    LET from == Decode(src)
        v == from.val
        fail == [err |-> ErrConvert, val |-> GoString("")]
    IN
    IF from.err # NoErr THEN fail
    ELSE CASE toID = "INT" /\ v.kind = "int64" -> from
           [] toID = "INT" /\ v.kind = "string" ->
                IF ParseInt(v.s).ok THEN [err |-> NoErr, val |-> GoInt(ParseInt(v.s).n)] ELSE fail
           [] toID \in {"STRING", "DEFAULT"} /\ v.kind = "string" -> from
           [] toID \in {"STRING", "DEFAULT"} /\ v.kind = "int64" ->
                [err |-> NoErr, val |-> GoString(FormatInt(v.n))]
           [] toID \in {"STRING", "DEFAULT"} /\ v.kind = "[]float32" ->
                [err |-> NoErr, val |-> GoString(v.s)]
           [] toID = "VFLOAT" /\ v.kind = "[]float32" -> from
           [] toID = "VFLOAT" /\ v.kind = "string" ->
                IF ParseVector(v.s) THEN [err |-> NoErr, val |-> GoVector(v.s)] ELSE fail
           [] OTHER -> fail

\* types.Marshal(dst, &b) with b of BinaryID: the binary encoding of the value
Marshal(val) ==
    CASE val.kind = "int64" -> Int64(val.n)
      [] val.kind = "[]float32" -> VFloat(val.s)
      [] OTHER -> Text(val.s)

\* posting.TypeID(edge)
StorageType(edge) == IF edge.ValueId # 0 THEN "UID" ELSE edge.ValueType

\* line 569
PermissionPredicate == "dgraph.rule.permission"

\* line 574
MaxPermission == 7

\* line 520 left out
langAllowedAlways(edge, su) == TRUE

\* line 520: the language tag of the edge is allowed by the schema
langAllowed(edge, su) == edge.Lang = "" \/ su.Lang

\* lines 547-548 left out
keepSchemaType(schemaType, storageType) == schemaType

\* lines 547-548: without a schema type the storage type is the one converted to
adoptStorageType(schemaType, storageType) ==
    IF schemaType = "DEFAULT" THEN storageType ELSE schemaType

\* line 582 left out
rewriteTypeKept(edge, schemaType) == edge

\* line 582
rewriteType(edge, schemaType) == [edge EXCEPT !.ValueType = schemaType]

\* line 584 left out
rewriteValueKept(edge, b) == edge

\* line 584
rewriteValue(edge, b) == [edge EXCEPT !.Value = b]

(***************************************************************************)
(* ValidateAndConvert(edge, su), lines 506-591: the error and the edge as  *)
(* the function leaves it.  acl is x.WorkerConfig.AclEnabled.              *)
(***************************************************************************)
ValidateAndConvert(edge, su, acl) ==
    LET storageType == StorageType(edge)
        declared == su.ValueType
        accept == [err |-> NoErr, edge |-> edge]
        reject(err) == [err |-> err, edge |-> edge]
        schemaType == adoptStorageType(declared, storageType)
        conv == Convert([Tid |-> edge.ValueType, Value |-> edge.Value], schemaType)
        b == Marshal(conv.val)
    IN
    IF isDeletePredicateEdge(edge) THEN accept
    ELSE IF edge.ValueType = "DEFAULT" /\ isStarAll(edge.Value) THEN accept
    ELSE IF ~langAllowed(edge, su) THEN reject("ErrLangDirective")
    ELSE IF ~IsScalar(declared) /\ ~IsScalar(storageType) THEN accept
    ELSE IF ~IsScalar(declared) /\ IsScalar(storageType) THEN reject("ErrUidIsScalar")
    ELSE IF IsScalar(declared) /\ ~IsScalar(storageType) THEN reject("ErrScalarIsUid")
    ELSE IF declared = "VFLOAT" /\ storageType \notin {"VFLOAT", "STRING", "DEFAULT"}
    THEN reject("ErrNotVector")
    ELSE IF declared # "VFLOAT" /\ storageType = declared /\ declared # "DEFAULT" THEN accept
    ELSE IF conv.err # NoErr THEN reject(conv.err)
    ELSE IF acl /\ edge.Attr = PermissionPredicate /\ conv.val.kind # "int64"
    THEN reject("ErrPermissionType")
    ELSE IF acl /\ edge.Attr = PermissionPredicate
            /\ (conv.val.n < 0 \/ conv.val.n > MaxPermission)
    THEN reject("ErrPermissionRange")
    ELSE [err |-> NoErr, edge |-> rewriteValue(rewriteType(edge, schemaType), b)]

(***************************************************************************)
(* The posting list of the key of an edge, as a set of postings, and       *)
(* AddMutationWithIndex on it: a deletion takes the posting of the edge    *)
(* away, or all of them when the value is the star; a SET adds the         *)
(* posting, which on a predicate that is not a list replaces the value of  *)
(* the same language.                                                      *)
(***************************************************************************)
Posting(edge) ==
    [ValueId |-> edge.ValueId, ValueType |-> edge.ValueType, Value |-> edge.Value,
     Lang |-> edge.Lang]

\* the posting list the store has for the key
StoredList == {[ValueId |-> 0, ValueType |-> "INT", Value |-> Int64(9), Lang |-> ""]}

AddMutationWithIndex(pl, edge, su) ==
    IF edge.Op = "DEL"
    THEN IF isStarAll(edge.Value) THEN {} ELSE pl \ {Posting(edge)}
    ELSE IF su.List \/ edge.ValueId # 0
    THEN pl \cup {Posting(edge)}
    ELSE {p \in pl : p.Lang # edge.Lang} \cup {Posting(edge)}

(***************************************************************************)
(* ValidateAndConvert and runMutation applied to an edge, and applied once *)
(* more to the edge as the first application left it.                      *)
(***************************************************************************)
EdgeValues == {Text(Star), Text("7"), Text("9"), Text("[0.5]"), Int64(7), Int64(9)}

Edges ==
    [Attr : {"age", PermissionPredicate}, Entity : {0, 1}, ValueId : {0, 2},
     ValueType : {"DEFAULT", "INT", "STRING"}, Value : EdgeValues, Lang : {"", "en"},
     Op : {"SET", "DEL"}]

EdgeSchemas ==
    [ValueType : {"DEFAULT", "INT", "STRING", "UID", "VFLOAT"}, Lang : BOOLEAN, List : BOOLEAN,
     Count : {FALSE}]

\* the schema line 62 hands out when there is none
NoEdgeSchema == [ValueType |-> "DEFAULT", Lang |-> FALSE, List |-> FALSE, Count |-> FALSE]

EdgeArgs ==
    [fn : {"ValidateAndConvert"}, edge : Edges, su : EdgeSchemas, acl : BOOLEAN, ok : {TRUE}]
        \cup [fn : {"runMutation"}, edge : Edges, su : EdgeSchemas, acl : BOOLEAN, ok : {TRUE}]
        \cup [fn : {"runMutation"}, edge : Edges, su : {NoEdgeSchema}, acl : BOOLEAN,
              ok : {FALSE}]

InitEdge ==
    /\ CoordinatorIdle
    /\ NetIdle
    /\ arg \in EdgeArgs
    /\ result = [fn |-> "none"]

\* ValidateAndConvert(edge, &su) on the edge ed, the time-th time
Validated(ed, time) ==
    LET r == ValidateAndConvert(ed, arg.su, arg.acl) IN
    [fn |-> arg.fn, err |-> r.err, edge |-> r.edge, getFn |-> "none", pl |-> {}, times |-> time]

\* runMutation(ctx, edge, txn) on the edge ed and the posting list pl, the time-th time
Mutated(ed, pl, time) ==
    LET conv == ValidateAndConvert(ed, arg.su, arg.acl)
        r == runMutation(ed, arg.su, arg.ok, conv.err)
        reached == ~(ed.Op # "DEL" /\ ~arg.ok) /\ ~isDeletePredicateEdge(ed)
        edge == IF reached THEN conv.edge ELSE ed
    IN
    [fn |-> arg.fn, err |-> r.err, edge |-> edge, getFn |-> r.getFn,
     pl |-> IF r.err = NoErr THEN AddMutationWithIndex(pl, edge, arg.su) ELSE pl,
     times |-> time]

ApplyValidateAndConvert ==
    /\ result.fn = "none"
    /\ arg.fn = "ValidateAndConvert"
    /\ result' = Validated(arg.edge, 1)
    /\ FnFrame

ApplyRunMutationEdge ==
    /\ result.fn = "none"
    /\ arg.fn = "runMutation"
    /\ result' = Mutated(arg.edge, StoredList, 1)
    /\ FnFrame

\* the same call once more, on the edge and the posting list the first one left
Reapply ==
    /\ result.fn # "none"
    /\ result.times = 1
    /\ result.err = NoErr
    /\ result' = IF arg.fn = "runMutation" THEN Mutated(result.edge, result.pl, 2)
                                           ELSE Validated(result.edge, 2)
    /\ FnFrame

NextEdge == ApplyValidateAndConvert \/ ApplyRunMutationEdge \/ Reapply

SpecEdge == InitEdge /\ [][NextEdge]_vars

\* the first application has returned
Applied(fn) == result.fn = fn /\ result.times = 1

\* the edge given is the delete-predicate wildcard edge: entity 0 and the value star
Wildcard == arg.edge.Entity = 0 /\ arg.edge.Value = Text(Star)

(***************************************************************************)
(* C21: for an edge with entity 0 and the star value, whatever its         *)
(* operation, its type and the schema, runMutation returns an error before *)
(* it chooses a retrieval, and the posting list is as it was: the error is *)
(* "never reach here", or the missing schema for an operation other than   *)
(* DEL without a schema; ValidateAndConvert returns nil for such an edge   *)
(* and leaves it unchanged.                                                *)
(***************************************************************************)
C21_DeletePredicateEdgeRejected ==
    Wildcard =>
        /\ Applied("runMutation") =>
             /\ result.err = IF arg.edge.Op # "DEL" /\ ~arg.ok THEN "ErrNoSchema"
                                                                ELSE "ErrNeverReach"
             /\ result.getFn = "none"
             /\ result.pl = StoredList
             /\ result.edge = arg.edge
        /\ Applied("ValidateAndConvert") =>
             /\ result.err = NoErr
             /\ result.edge = arg.edge

\* a SET of the wildcard edge, typed int against a uid schema that exists, was refused
C21_Witness ==
    /\ Wildcard
    /\ Applied("runMutation")
    /\ arg.edge.Op = "SET"
    /\ arg.edge.ValueType = "INT"
    /\ arg.su.ValueType = "UID"
    /\ arg.ok
    /\ result.err = "ErrNeverReach"

\* the edge given has a language tag and the schema has no @lang
LangUnsupported == arg.edge.Lang # "" /\ ~arg.su.Lang

\* the edge given has the default type and the star value, line 511
StarValue == arg.edge.ValueType = "DEFAULT" /\ arg.edge.Value = Text(Star)

C23_AcceptedTypeIsSchemaType ==
    (Applied("ValidateAndConvert") /\ result.err = NoErr) =>
        StorageType(result.edge) = arg.su.ValueType

(***************************************************************************)
(* C23, amended: when ValidateAndConvert returns nil, the storage type of  *)
(* the edge as it leaves it is the value type of the schema when the       *)
(* schema has one; against a schema of default type the edge keeps its own *)
(* storage type; and a delete-predicate edge or an edge of default type    *)
(* with the star value is left as it came.  An edge runMutation applies    *)
(* against a schema with a value type has that type, unless it is such a   *)
(* star edge.                                                              *)
(***************************************************************************)
C23_AcceptedTypeFollowsSchema ==
    /\ (Applied("ValidateAndConvert") /\ result.err = NoErr) =>
         IF Wildcard \/ StarValue THEN result.edge = arg.edge
         ELSE IF arg.su.ValueType = "DEFAULT"
         THEN StorageType(result.edge) = StorageType(arg.edge)
         ELSE StorageType(result.edge) = arg.su.ValueType
    /\ (Applied("runMutation") /\ result.err = NoErr /\ ~StarValue
          /\ arg.su.ValueType # "DEFAULT") =>
         StorageType(result.edge) = arg.su.ValueType

\* a string edge against an int schema was accepted and has the type int
C23_Witness ==
    /\ Applied("ValidateAndConvert")
    /\ result.err = NoErr
    /\ arg.edge.ValueType = "STRING"
    /\ arg.su.ValueType = "INT"
    /\ result.edge.ValueType = "INT"

\* the value of the edge given, converted to an integer
AsInteger == Convert([Tid |-> arg.edge.ValueType, Value |-> arg.edge.Value], "INT")

\* a scalar edge on the permission predicate, whose schema is int, with access control on,
\* whose bytes are those of its type, that is no star edge and passes the language check
PermissionEdge ==
    /\ arg.acl
    /\ arg.edge.Attr = PermissionPredicate
    /\ arg.su.ValueType = "INT"
    /\ arg.edge.ValueId = 0
    /\ arg.edge.Value.enc = (IF arg.edge.ValueType = "INT" THEN "int64" ELSE "utf8")
    /\ ~Wildcard
    /\ ~StarValue
    /\ ~LangUnsupported

PermissionInRangeWhenConverted ==
    (Applied("ValidateAndConvert") /\ PermissionEdge /\ arg.edge.ValueType # "INT") =>
        IF AsInteger.err = NoErr
        THEN /\ result.err = NoErr <=> (0 <= AsInteger.val.n /\ AsInteger.val.n <= MaxPermission)
             /\ ~(0 <= AsInteger.val.n /\ AsInteger.val.n <= MaxPermission) =>
                  result.err = "ErrPermissionRange"
        ELSE result.err = ErrConvert

\* the storage type of the edge given differs from the scalar type the schema declares
NeedsConversion ==
    /\ arg.su.ValueType \notin {"DEFAULT", "UID"}
    /\ StorageType(arg.edge) # arg.su.ValueType

\* the value of the edge given, converted to the type of the schema
AsSchemaType ==
    Convert([Tid |-> arg.edge.ValueType, Value |-> arg.edge.Value], arg.su.ValueType)

\* the edge given, rewritten with the type of the schema and the encoding of the converted value
Rewritten ==
    [arg.edge EXCEPT !.ValueType = arg.su.ValueType, !.Value = Marshal(AsSchemaType.val)]

\* lines 569-578 refuse the converted value
PermissionRefused ==
    /\ arg.acl
    /\ arg.edge.Attr = PermissionPredicate
    /\ \/ AsSchemaType.val.kind # "int64"
       \/ AsSchemaType.val.n < 0
       \/ AsSchemaType.val.n > MaxPermission

(***************************************************************************)
(* C25, as claimed: when the storage type of the edge differs from the     *)
(* scalar type of the schema, ValidateAndConvert rewrites the edge with    *)
(* the type of the schema and the binary encoding of the converted value   *)
(* when the value converts, and returns the conversion error when it does  *)
(* not.                                                                    *)
(***************************************************************************)
C25_ConvertsOrFails ==
    (Applied("ValidateAndConvert") /\ NeedsConversion) =>
        IF AsSchemaType.err = NoErr
        THEN result.err = NoErr /\ result.edge = Rewritten
        ELSE result.err = ErrConvert

(***************************************************************************)
(* C25, amended: the same for an edge that reaches the conversion: one     *)
(* that is neither the delete-predicate edge nor of default type with the  *)
(* star value, whose language tag the schema allows, whose storage type is *)
(* a scalar and, against a vector schema, vector, string or default; and   *)
(* unless the permission check refuses the converted value.  An edge that  *)
(* is refused is left unchanged.                                           *)
(***************************************************************************)
C25_ConvertsWhenReached ==
    (Applied("ValidateAndConvert") /\ NeedsConversion /\ ~Wildcard /\ ~StarValue
       /\ ~LangUnsupported /\ IsScalar(StorageType(arg.edge))) =>
        IF arg.su.ValueType = "VFLOAT" /\ StorageType(arg.edge) \notin {"STRING", "DEFAULT"}
        THEN result.err = "ErrNotVector" /\ result.edge = arg.edge
        ELSE IF AsSchemaType.err # NoErr
        THEN result.err = ErrConvert /\ result.edge = arg.edge
        ELSE IF PermissionRefused
        THEN result.err \in {"ErrPermissionType", "ErrPermissionRange"} /\ result.edge = arg.edge
        ELSE result.err = NoErr /\ result.edge = Rewritten

\* the text 7 of default type against an int schema became the int with the encoding of 7
C25_Witness ==
    /\ Applied("ValidateAndConvert")
    /\ arg.edge.ValueType = "DEFAULT"
    /\ arg.edge.Value = Text("7")
    /\ arg.su.ValueType = "INT"
    /\ result.err = NoErr
    /\ result.edge.ValueType = "INT"
    /\ result.edge.Value = Int64(7)

\* the step that applies the same call a second time
SecondApplication == result.fn # "none" /\ result.times = 1 /\ result'.times = 2

C26_WitnessValidated ==
    /\ result.fn = "ValidateAndConvert"
    /\ result.times = 2
    /\ result.edge # arg.edge

(***************************************************************************)
(* checkSchema and validateSchemaForUnique applied to a schema update,     *)
(* given the schema the node has for the predicate and the items the store *)
(* holds under the data prefix of the predicate.                           *)
(***************************************************************************)

\* An item of the store: whether its user meta carries posting.BitEmptyPosting, and
\* whether the posting list it stands for holds a posting.  A list written as empty
\* holds none; deltas that cancel each other leave an item without the bit and
\* without a posting.
StoreItems == {it \in [empty : BOOLEAN, live : BOOLEAN] : it.empty => ~it.live}

Stores == SUBSET StoreItems

hasEdgesNever(items) == FALSE

\* hasEdges(attr, startTs): some item under the data prefix lacks the empty bit
hasEdges(items) == \E it \in items : ~it.empty

\* the predicate has data: some posting list of it holds a posting
HasPostings(items) == \E it \in items : it.live

SchemaTypes == {"STRING", "INT", "UID", "PASSWORD"}

SchemaTokenizers == {{}, {"hash"}, {"int"}, {"term"}}

\* the schema updates of the predicate name
SchemaUpdates ==
    {[ZeroSchema EXCEPT !.Predicate = "name", !.ValueType = t, !.Directive = d,
                        !.Tokenizer = tk, !.VecSpec = v, !.List = l, !.Upsert = u,
                        !.Unique = q] :
        t \in SchemaTypes, d \in {"NONE", "INDEX", "REVERSE"}, tk \in SchemaTokenizers,
        v \in BOOLEAN, l \in BOOLEAN, u \in BOOLEAN, q \in BOOLEAN}

\* the schemas the node can have for the predicate: none, or an update that
\* checkSchema accepted for a predicate without schema, as checkSchema left it
PrevSchemas ==
    {ZeroSchema} \cup
    {checkSchema(su, ZeroSchema, FALSE).s :
        su \in {u \in SchemaUpdates : checkSchema(u, ZeroSchema, FALSE).err = NoErr
                                      /\ u.Tokenizer \in {{}, {"hash"}}
                                      /\ ~u.VecSpec}}

\* checkSchema up to line 415: the update reaches the uniqueness check
ReachesUnique(su) ==
    checkSchema([su EXCEPT !.Unique = FALSE], ZeroSchema, FALSE).err = NoErr

SchemaArgs ==
    [fn : {"checkSchema"}, s : SchemaUpdates, prev : PrevSchemas, items : Stores]
    \cup
    {a \in [fn : {"validateSchemaForUnique"}, s : SchemaUpdates, prev : PrevSchemas,
            items : {{}}] : a.s.Unique /\ ReachesUnique(a.s)}

InitSchema ==
    /\ CoordinatorIdle
    /\ NetIdle
    /\ arg \in SchemaArgs
    /\ result = [fn |-> "none"]

ApplyCheckSchema ==
    /\ result.fn = "none"
    /\ arg.fn = "checkSchema"
    /\ LET r == checkSchema(arg.s, arg.prev, hasEdges(arg.items)) IN
       result' = [fn |-> arg.fn, err |-> r.err, s |-> r.s]
    /\ FnFrame

ApplyValidateSchemaForUnique ==
    /\ result.fn = "none"
    /\ arg.fn = "validateSchemaForUnique"
    /\ LET r == validateSchemaForUnique(arg.prev, arg.s) IN
       result' = [fn |-> arg.fn, err |-> r.err, s |-> r.s]
    /\ FnFrame

NextSchema == ApplyCheckSchema \/ ApplyValidateSchemaForUnique

SpecSchema == InitSchema /\ [][NextSchema]_vars

\* checkSchema was applied to an update of a predicate that has a schema
CheckedAgainstSchema == result.fn = "checkSchema" /\ arg.prev.Predicate # ""

\* the update turns a uid predicate into a scalar one or a scalar one into a uid one
FlipsUidScalar == IsScalar(arg.prev.ValueType) # IsScalar(arg.s.ValueType)

(***************************************************************************)
(* C27: for a predicate that has a schema and data, checkSchema rejects    *)
(* every update that turns it from uid to scalar or from scalar to uid,    *)
(* whatever the other fields of the update are.                            *)
(***************************************************************************)
C27_FlipWithDataRejected ==
    (CheckedAgainstSchema /\ HasPostings(arg.items) /\ FlipsUidScalar) =>
        result.err # NoErr

\* a flip that nothing else in the update forbids was rejected because of the data
C27_Witness ==
    /\ CheckedAgainstSchema
    /\ HasPostings(arg.items)
    /\ FlipsUidScalar
    /\ result.err = "ErrUidScalarChange"

\* a uid predicate with data was refused the password type
C27_WitnessPassword ==
    /\ CheckedAgainstSchema
    /\ HasPostings(arg.items)
    /\ arg.prev.ValueType = "UID"
    /\ arg.s.ValueType = "PASSWORD"
    /\ result.err = "ErrUidScalarChange"

\* the store holds an item of the predicate without the empty bit
NonEmptyItem == \E it \in arg.items : ~it.empty

\* the password type before and after the update
StaysPassword == arg.prev.ValueType = "PASSWORD" /\ arg.s.ValueType = "PASSWORD"

(***************************************************************************)
(* C28, as claimed: while hasEdges is true for the predicate, checkSchema  *)
(* rejects an update that changes it from list to non-list or from         *)
(* non-list to list.                                                       *)
(***************************************************************************)
C28_ListChangeRejectedBothWays ==
    (CheckedAgainstSchema /\ NonEmptyItem /\ arg.prev.List # arg.s.List) =>
        result.err # NoErr

(***************************************************************************)
(* C28, amended: while hasEdges is true for the predicate, checkSchema     *)
(* rejects an update that changes it from list to non-list, unless its     *)
(* type is password and stays password; it never rejects an update for     *)
(* changing the predicate from non-list to list.                           *)
(***************************************************************************)
C28_ListToNonListRejected ==
    /\ (CheckedAgainstSchema /\ NonEmptyItem /\ arg.prev.List /\ ~arg.s.List
          /\ ~StaysPassword) => result.err # NoErr
    /\ (CheckedAgainstSchema /\ ~arg.prev.List) => result.err # "ErrListChange"

\* a list predicate with data was refused the non-list form of the same type
C28_Witness ==
    /\ CheckedAgainstSchema
    /\ NonEmptyItem
    /\ arg.prev.List
    /\ ~arg.s.List
    /\ arg.prev.ValueType = arg.s.ValueType
    /\ result.err = "ErrListChange"

\* a non-list predicate with data was made a list
C28_WitnessToList ==
    /\ CheckedAgainstSchema
    /\ NonEmptyItem
    /\ ~arg.prev.List
    /\ arg.s.List
    /\ result.err = NoErr

\* the update changes the type from password to another type or from another type to password
ChangesPassword == (arg.prev.ValueType = "PASSWORD") # (arg.s.ValueType = "PASSWORD")

(***************************************************************************)
(* C29: for a predicate that has a schema, checkSchema rejects every       *)
(* update that changes the type from password to another type or from      *)
(* another type, scalar or uid, to password, with or without data; an      *)
(* update that keeps the password type is not rejected by this rule.       *)
(***************************************************************************)
C29_PasswordChangeRejected ==
    /\ (CheckedAgainstSchema /\ ChangesPassword) => result.err # NoErr
    /\ (CheckedAgainstSchema /\ StaysPassword) => result.err # "ErrPasswordChange"

\* the same for a predicate whose type is a scalar: the case the first case of the switch decides
PasswordChangeRejectedForScalars ==
    /\ (CheckedAgainstSchema /\ ChangesPassword /\ IsScalar(arg.prev.ValueType)) =>
           result.err # NoErr
    /\ (CheckedAgainstSchema /\ StaysPassword) => result.err # "ErrPasswordChange"

\* a uid predicate without items in the store was given the password type
UidBecamePassword ==
    /\ CheckedAgainstSchema
    /\ arg.prev.ValueType = "UID"
    /\ arg.s.ValueType = "PASSWORD"
    /\ arg.items = {}
    /\ result.err = NoErr

\* validateSchemaForUnique was applied
UniqueChecked == result.fn = "validateSchemaForUnique"

\* unless the update was rejected for dropping upsert or the index of a unique
\* predicate, it leaves validateSchemaForUnique with upsert set
UpsertForced ==
    (UniqueChecked /\ result.err \notin {"ErrDropUpsert", "ErrDropIndex"}) =>
        result.s.Upsert

(***************************************************************************)
(* C30: validateSchemaForUnique accepts a unique update only if its type   *)
(* is string and a hash or exact tokenizer is present, or its type is int  *)
(* and some tokenizer is present; and unless it rejects the update for     *)
(* dropping upsert or the index of the prior schema, the update has upsert *)
(* set afterwards.                                                         *)
(***************************************************************************)
C30_UniqueNeedsHashOrExact ==
    /\ (UniqueChecked /\ result.err = NoErr) =>
           \/ arg.s.ValueType = "STRING" /\ arg.s.Tokenizer \cap {"hash", "exact"} # {}
           \/ arg.s.ValueType = "INT" /\ arg.s.Tokenizer # {}
    /\ UpsertForced

\* the same with the int tokenizer counted among those of a string
UniqueNeedsListedTokenizer ==
    /\ (UniqueChecked /\ result.err = NoErr) =>
           \/ arg.s.ValueType = "STRING"
                /\ arg.s.Tokenizer \cap {"hash", "exact", "int"} # {}
           \/ arg.s.ValueType = "INT" /\ arg.s.Tokenizer # {}
    /\ UpsertForced

\* a unique string update with the int tokenizer alone was accepted
UniqueStringWithIntIndex ==
    /\ UniqueChecked
    /\ arg.s.ValueType = "STRING"
    /\ arg.s.Tokenizer = {"int"}
    /\ result.err = NoErr
    /\ result.s.Upsert

\* checkSchema was applied to an update that names a predicate the user may define
CheckedNamed ==
    /\ result.fn = "checkSchema"
    /\ arg.s.Predicate # ""
    /\ ~IsInternalPredicate(arg.s.Predicate)

\* the update has a tokenizer or a vector index specification
Tokenized == arg.s.Tokenizer # {} \/ arg.s.VecSpec

(***************************************************************************)
(* C31: checkSchema accepts an update with the index directive only if it  *)
(* has a tokenizer or a vector index specification, and an update with one *)
(* of these only if its directive is index; an update that breaks either   *)
(* rule is rejected for it, before any check of the type, of upsert, of    *)
(* uniqueness or against the existing schema.                              *)
(***************************************************************************)
C31_IndexIffTokenizer ==
    /\ (result.fn = "checkSchema" /\ result.err = NoErr) =>
           ((arg.s.Directive = "INDEX") <=> Tokenized)
    /\ (CheckedNamed /\ arg.s.Directive = "INDEX" /\ ~Tokenized) =>
           result.err = "ErrTokenizerMissing"
    /\ (CheckedNamed /\ arg.s.Directive # "INDEX" /\ Tokenized) =>
           result.err = "ErrDirectiveNotIndex"

\* an index on a uid predicate without a tokenizer was refused for the missing tokenizer
C31_Witness ==
    /\ CheckedNamed
    /\ arg.s.Directive = "INDEX"
    /\ ~Tokenized
    /\ arg.s.ValueType = "UID"
    /\ result.err = "ErrTokenizerMissing"

\* a vector index specification with the index directive and no tokenizer was accepted
C31_WitnessVector ==
    /\ CheckedNamed
    /\ arg.s.Directive = "INDEX"
    /\ arg.s.Tokenizer = {}
    /\ arg.s.VecSpec
    /\ result.err = NoErr

\* a tokenizer with the reverse directive was refused for the directive
C31_WitnessDirective ==
    /\ CheckedNamed
    /\ arg.s.Directive = "REVERSE"
    /\ arg.s.Tokenizer # {}
    /\ result.err = "ErrDirectiveNotIndex"

(***************************************************************************)
(* C32: the opIndexing task a call has started is released: it is not held *)
(* any more once the call has returned and the goroutines it launched have *)
(* ended, and, unless the process has ended, the task is eventually        *)
(* released and a call that waits in waitForTask eventually goes on.       *)
(***************************************************************************)
C32_TaskEventuallyReleased ==
    /\ [](\A c \in Calls : Over(c, pc, g) => opIndexing # c)
    /\ [](\A c \in Calls : (closer[c] = c /\ opIndexing # c) => closerDone[c] = 1)
    /\ (opIndexing # 0) ~> (fatal \/ opIndexing = 0)
    /\ (\E c \in Calls : pc[c] = "wait") ~> (fatal \/ \A c \in Calls : pc[c] # "wait")

\* the call that started the task has returned, its rebuilds have ended, the task
\* is released and the next call is past waitForTask
C32_Witness ==
    \E c, d \in Calls :
        /\ c # d
        /\ Over(c, pc, g)
        /\ closerDone[c] = 1
        /\ opIndexing = 0
        /\ pc[d] = "loop"

\* the rebuild was rolled back and its goroutine released the task
C32_WitnessRollback ==
    \E c \in Calls : \E p \in Preds :
        /\ g[c][p].st = "stopCas"
        /\ "RolledBack" \in g[c][p].out
        /\ pc[c] = "returned"
        /\ opIndexing = c

\* closer.Done has been called on the closer of call c in this step
ReleasedNow(c) == closerDone'[c] > closerDone[c]

C33_WitnessDeferred ==
    \E c \in Calls : \E p \in Preds :
        /\ pc[c] = "returned"
        /\ g[c][p].st = "wgWait"
        /\ wg[c] = 0
        /\ opIndexing = c
        /\ closerDone[c] = 0

(***************************************************************************)
(* C34: every buildIndexes goroutine a call has launched holds a closer    *)
(* that is not nil, so that stopIndexing never calls Done on a nil closer, *)
(* also when the opIndexing task is already running at the first predicate *)
(* of the call that needs a rebuild.                                       *)
(***************************************************************************)
C34_GoroutineHoldsCloser ==
    \A c \in Calls : \A p \in Preds : g[c][p].st # "none" => g[c][p].cl # 0

\* the task of another call was running when this call reached its first predicate
\* that needs a rebuild: its goroutine is about to call Done on the nil closer
NilCloserDone ==
    \E c, d \in Calls : \E p \in Preds :
        /\ c # d
        /\ closer[d] = d
        /\ closer[c] = 0
        /\ g[c][p].st = "stopCas"
        /\ g[c][p].cl = 0
        /\ done[c] = 0

\* runSchemaMutation has returned an error and no goroutine of the call is left
ReturnedError ==
    /\ ret.c # 0
    /\ ret.err # NoErr
    /\ Over(ret.c, pc, g)

(***************************************************************************)
(* C35: when runSchemaMutation has returned an error and no rebuild of the *)
(* batch is pending or running, the schema in memory of every predicate    *)
(* equals its schema record in the store, whatever the error is.           *)
(***************************************************************************)
C35_ErrorLeavesMemoryDurable ==
    ReturnedError => \A p \in Preds : predicate[p] = durable[p]

\* the same for the first call and the errors other than the failed commit of the
\* synchronous updateSchema
ErrorLeavesMemoryDurableButCommit ==
    (ReturnedError /\ ret.c = 1 /\ ret.err # "ErrCommit") =>
        \A p \in Preds : predicate[p] = durable[p]

\* the commit of the synchronous updateSchema failed: the memory holds the update,
\* the store the schema it held before
CommitFailedInCaller ==
    /\ ReturnedError
    /\ ret.err = "ErrCommit"
    /\ \E p \in Preds : predicate[p] \in ret.synced /\ durable[p] # predicate[p]

(***************************************************************************)
(* C36: when MutateOverNetwork returns errNonExistentTablet for a          *)
(* partition of the group id 0, no proposeOrSend was started for any       *)
(* partition of the batch, whatever the order of the map.                  *)
(***************************************************************************)
C36_SentinelBeforeAnyDispatch ==
    (Returned /\ out.err = errNonExistentTablet) => \A gid \in Groups : ~Dispatched(gid)

\* cap(resCh), line 762
Capacity == Cardinality(DOMAIN mutationMap)

\* close(resCh) of line 788 was reached
Closed == mpc = "done" /\ undispatched = {} /\ received = Capacity

\* a res has been sent on resCh in this step
SentNow == Len(resCh') > Len(resCh)

\* proposeOrSend of the group runs and has not sent its res
Running(gid) == shard[gid].st \in {"called", "waitForTs", "propose", "remote"}

(***************************************************************************)
(* C37: every proposeOrSend that was started sends one res on resCh and    *)
(* no more, on every path; the channel has room for every send and is not  *)
(* closed when a send happens; the goroutine of the call to the leader     *)
(* finds room on its channel for its error, also after the cancellation    *)
(* and when MutateOverNetwork has returned errNonExistentTablet.           *)
(***************************************************************************)
C37_OneResultPerCall ==
    /\ [][SentNow =>
            /\ ~Closed
            /\ Len(resCh') <= Capacity
            /\ \E gid \in Groups :
                 /\ Running(gid)
                 /\ shard'[gid].st = "sent"
                 /\ shard'[gid].res.from = gid
                 /\ resCh' = Append(resCh, shard'[gid].res)]_vars
    /\ [][\A gid \in Groups : ~Running(gid) => ~Running(gid)' \/ ~Dispatched(gid)]_vars
    /\ [](\A gid \in Groups : Len(shard[gid].ch) <= 1)
    /\ \A gid \in Groups : Dispatched(gid) ~> Answered(gid)
    /\ \A gid \in Groups : (shard[gid].rpc = "running") ~> (shard[gid].rpc = "done")

\* MutateOverNetwork returned errNonExistentTablet and the call it had started has
\* sent its res since
C37_Witness ==
    /\ Returned
    /\ out.err = errNonExistentTablet
    /\ \E gid \in KnownGroups : shard[gid].st = "sent" /\ shard[gid].res \in Range(resCh)

\* the call took the cancellation and the goroutine of the call to the leader has
\* sent its error since
C37_WitnessCancelled ==
    \E gid \in KnownGroups :
        /\ shard[gid].st \in {"sent", "received"}
        /\ shard[gid].res.err = Canceled
        /\ shard[gid].rpc = "done"
        /\ Len(shard[gid].ch) = 1

====
